---- MODULE Spec2Model ----
(***************************************************************************)
(* deeptrend: signal store, velocity engine, analysis run, insight store   *)
(* and JSON feed, as state machines over the two Supabase tables.          *)
(*                                                                         *)
(* Time is in milliseconds, as Date.getTime() gives it.  An ISO-8601 UTC   *)
(* string of fixed format orders as the instant it denotes, so a           *)
(* timestamp column is modelled by the millisecond count it was made of.   *)
(* Numbers with one decimal (velocity, confidence) are kept in tenths.     *)
(***************************************************************************)
EXTENDS Integers, Sequences, FiniteSets, TLC

VARIABLES
    clock,        \* wall clock, ms (new Date() / Date.now())
    raw_signals,  \* table raw_signals: a set of rows, unique on (source, source_id)
    insights,     \* table insights: a set of rows
    op,           \* name of the operation that ran last
    ret,          \* its arguments and what it returned
    runs,         \* number of runAnalysis / runResearch invocations so far
    mock,         \* the inputs handed to a function run on its own: the per-window
                  \* row counts of a mocked store, the arguments of buildPrompt
    calls         \* the calls in flight that other commands can interleave with,
                  \* each with its local variables

vars == <<clock, raw_signals, insights, op, ret, runs, mock, calls>>

(***************************************************************************)
(* Bounds of the model                                                     *)
(***************************************************************************)
MaxTicks == 3
MaxBatch == 2
MaxCount == 12
LargePrevious == 1001

(***************************************************************************)
(* Program constants                                                       *)
(***************************************************************************)
HourMs == 3600000
ChunkSize == 100
HotThreshold == 50
NewTopicVelocity == 100

Min(a, b) == IF a < b THEN a ELSE b

\* All orderings of a finite set, as sequences without repetition.
Orderings(S) ==
    {s \in [1..Cardinality(S) -> S] : \A i, j \in 1..Cardinality(S) : i # j => s[i] # s[j]}

(***************************************************************************)
(* Signals                                                                 *)
(***************************************************************************)
\* score is <<n>>; <<>> stands for a signal object without the property.
Signal(src, id, title, tags) ==
    [source |-> src, source_id |-> id, title |-> title, tags |-> tags, score |-> <<0>>]

\* The signals scrapers hand to upsertSignals: two share a key and differ in
\* title and tags (the second carries two topics), the third has another
\* source_id and carries a tag twice up to letter case (reddit: subreddit and
\* flair).
SignalSamples ==
    { Signal("reddit", "a", "t1", <<"AI">>),
      Signal("reddit", "a", "t2", <<"AI", "ml">>),
      Signal("reddit", "b", "t1", <<"AI", "ai">>) }

Batches == UNION {[1..n -> SignalSamples] : n \in 1..MaxBatch}

Topics == {"ai", "ml"}

\* String.prototype.toLowerCase on the tags of the model.
toLowerCase(tag) ==
    CASE tag = "AI" -> "ai"
      [] tag = "ML" -> "ml"
      [] OTHER -> tag

\* Mutant: the conflict target is source_id alone.
SameKeyIdOnly(r, s) == r.source_id = s.source_id

\* onConflict: 'source,source_id' (constraint raw_signals_unique_source).
SameKey(r, s) == r.source = s.source /\ r.source_id = s.source_id

\* rows = signals.map(s => ({...s, scraped_at: new Date().toISOString()}));
\* column velocity is null (<<>>) in a row just inserted.
stampSignal(s, now) ==
    [source |-> s.source, source_id |-> s.source_id, title |-> s.title,
     tags |-> s.tags, score |-> s.score, scraped_at |-> now, velocity |-> <<>>]

(***************************************************************************)
(* raw_signals: upsert                                                     *)
(***************************************************************************)
RECURSIVE dbUpsertOverwrite(_, _)
\* Mutant: ON CONFLICT DO UPDATE (ignoreDuplicates: false).
dbUpsertOverwrite(table, chunk) ==
    IF chunk = <<>> THEN table
    ELSE LET r == Head(chunk)
         IN dbUpsertOverwrite({x \in table : ~SameKey(x, r)} \cup {r}, Tail(chunk))

\* .upsert(chunk, {onConflict: 'source,source_id', ignoreDuplicates: true}):
\* INSERT ... ON CONFLICT (source, source_id) DO NOTHING.  A row of the chunk
\* is stored when neither the table nor an earlier row of the chunk holds its
\* key.
dbUpsert(table, chunk) ==
    table \cup {chunk[k] : k \in {j \in 1..Len(chunk) :
                                    /\ ~\E x \in table : SameKey(x, chunk[j])
                                    /\ ~\E i \in 1..(j - 1) : SameKey(chunk[i], chunk[j])}}

\* The loop indices i = 0, 100, 200, ... of upsertSignals.
ChunkStarts(n) == {i \in 0..n : i < n /\ i % ChunkSize = 0}

RECURSIVE upsertChunks(_, _, _, _, _)
\* for (i = 0; i < rows.length; i += 100): one upsert per chunk; a store error
\* on a chunk is pushed to errors, otherwise count is added to inserted.
upsertChunks(table, rows, i, failed, acc) ==
    IF i >= Len(rows)
    THEN [table |-> table, inserted |-> acc.inserted, errors |-> acc.errors]
    ELSE LET chunk == SubSeq(rows, i + 1, Min(i + ChunkSize, Len(rows)))
             after == dbUpsert(table, chunk)
         IN IF i \in failed
            THEN upsertChunks(table, rows, i + ChunkSize, failed,
                     [acc EXCEPT !.errors = Append(@, <<"Upsert chunk", i>>)])
            ELSE upsertChunks(after, rows, i + ChunkSize, failed,
                     [acc EXCEPT !.inserted = @ + Cardinality(after) - Cardinality(table)])

upsertSignals(table, signals, now, failed) ==
    LET rows == [k \in 1..Len(signals) |-> stampSignal(signals[k], now)]
    IN upsertChunks(table, rows, 0, failed, [inserted |-> 0, errors |-> <<>>])

(***************************************************************************)
(* Velocity engine                                                         *)
(***************************************************************************)
\* Mutant: .lte('scraped_at', until) in place of .lt.
dbSelectWindowClosed(table, since, until) ==
    {r \in table : r.scraped_at >= since /\ r.scraped_at <= until}

\* .from('raw_signals').select('tags').gte('scraped_at', since).lt('scraped_at', until)
dbSelectWindow(table, since, until) ==
    {r \in table : r.scraped_at >= since /\ r.scraped_at < until}

EmptyCounts == [keys |-> <<>>, n |-> [t \in Topics |-> 0]]

\* counts[normalized] = (counts[normalized] ?? 0) + 1; keys keeps the order in
\* which the properties were created (Object.keys order).
bump(counts, tag) ==
    LET t == toLowerCase(tag)
    IN [keys |-> IF counts.n[t] = 0 THEN Append(counts.keys, t) ELSE counts.keys,
        n |-> [counts.n EXCEPT ![t] = @ + 1]]

RECURSIVE countTags(_, _)
\* for (const tag of tags) { ... }
countTags(counts, tags) ==
    IF tags = <<>> THEN counts ELSE countTags(bump(counts, Head(tags)), Tail(tags))

RECURSIVE countRows(_, _)
\* for (const row of data ?? []) { ... }
countRows(counts, data) ==
    IF data = <<>> THEN counts
    ELSE countRows(countTags(counts, Head(data).tags), Tail(data))

\* getTagCounts, given the rows the query returned, in the order returned.
getTagCounts(data) == countRows(EmptyCounts, data)

\* Math.round(num / den) for den > 0: the nearest integer, halves toward +Infinity.
MathRound(num, den) == (2 * num + den) \div (2 * den)

\* Mutant: the new-topic case is not special-cased and yields 0.
scoreNoNewTopic(topic, current, previous) ==
    [topic |-> topic, current_count |-> current, previous_count |-> previous,
     velocity |-> IF previous = 0 THEN 0
                  ELSE MathRound((current - previous) * 1000, previous),
     is_hot |-> previous # 0 /\ (current - previous) * 100 > HotThreshold * previous]

\* One VelocityScore (velocity.ts:67-81).  velocity is in tenths of a percent:
\* Math.round(velocity * 10) before the division by 10.  is_hot compares the
\* unrounded velocity with 50.
score(topic, current, previous) ==
    [topic |-> topic, current_count |-> current, previous_count |-> previous,
     velocity |-> IF previous = 0
                  THEN (IF current > 0 THEN NewTopicVelocity * 10 ELSE 0)
                  ELSE MathRound((current - previous) * 1000, previous),
     is_hot |-> IF previous = 0
                THEN (IF current > 0 THEN NewTopicVelocity ELSE 0) > HotThreshold
                ELSE (current - previous) * 100 > HotThreshold * previous]

RECURSIVE appendNew(_, _)
\* new Set([...a, ...b]): insertion order, first occurrence kept.
appendNew(a, b) ==
    IF b = <<>> THEN a
    ELSE appendNew(IF \E i \in 1..Len(a) : a[i] = Head(b) THEN a ELSE Append(a, Head(b)),
                   Tail(b))

\* Mutant: no sort, the scores stay in the order the topics were met.
sortInsertUnsorted(sorted, x) == Append(sorted, x)

RECURSIVE sortInsert(_, _)
\* Place x behind every element whose velocity is >= x's: with the elements
\* inserted left to right this is the stable sort of (a, b) => b.velocity - a.velocity.
sortInsert(sorted, x) ==
    IF sorted = <<>> THEN <<x>>
    ELSE IF Head(sorted).velocity >= x.velocity
         THEN <<Head(sorted)>> \o sortInsert(Tail(sorted), x)
         ELSE <<x>> \o sorted

RECURSIVE sortScores(_, _)
sortScores(sorted, rest) ==
    IF rest = <<>> THEN sorted
    ELSE sortScores(sortInsert(sorted, Head(rest)), Tail(rest))

RECURSIVE scoreTopics(_, _, _)
\* for (const topic of allTopics) { ...; if (current === 0 && previous === 0) continue; ... }
scoreTopics(topics, currentCounts, previousCounts) ==
    IF topics = <<>> THEN <<>>
    ELSE LET t == Head(topics)
             c == currentCounts.n[t]
             p == previousCounts.n[t]
             rest == scoreTopics(Tail(topics), currentCounts, previousCounts)
         IN IF c = 0 /\ p = 0 THEN rest ELSE <<score(t, c, p)>> \o rest

\* computeVelocity from the two count maps on (velocity.ts:56-87).
scoresOf(currentCounts, previousCounts) ==
    sortScores(<<>>, scoreTopics(appendNew(currentCounts.keys, previousCounts.keys),
                                 currentCounts, previousCounts))

\* computeVelocity (velocity.ts:44-88) on the stored rows: the possible
\* results.  Promise.all rejects when either getTagCounts throws, and then no
\* score is built; otherwise the rows of each window come in some order.
computeVelocity(table, windowHours, now, currentFails, previousFails) ==
    LET currentStart == now - windowHours * HourMs
        previousStart == currentStart - windowHours * HourMs
        current == dbSelectWindow(table, currentStart, now)
        previous == dbSelectWindow(table, previousStart, currentStart)
    IN IF currentFails \/ previousFails
       THEN {[threw |-> TRUE, scores |-> <<>>]}
       ELSE {[threw |-> FALSE,
              scores |-> scoresOf(getTagCounts(curData), getTagCounts(prevData))] :
               curData \in Orderings(current), prevData \in Orderings(previous)}

\* The counts getTagCounts builds from n rows that each carry the one tag `topic`.
uniformCounts(topic, n) ==
    [keys |-> IF n > 0 THEN <<topic>> ELSE <<>>,
     n |-> [t \in Topics |-> IF t = topic THEN n ELSE 0]]

(***************************************************************************)
(* Initial state                                                           *)
(***************************************************************************)
NoMock == [current |-> 0, previous |-> 0]

\* No call is in flight.
NoCalls == <<>>

Init ==
    /\ clock = 0
    /\ raw_signals = {}
    /\ insights = {}
    /\ op = "init"
    /\ ret = [none |-> TRUE]
    /\ runs = 0
    /\ calls = NoCalls
    /\ mock = NoMock

(***************************************************************************)
(* Operations on the signal store                                          *)
(***************************************************************************)
Tick ==
    /\ clock < MaxTicks * HourMs
    /\ clock' = clock + HourMs
    /\ UNCHANGED <<raw_signals, insights, op, ret, runs, mock, calls>>

UpsertSignalsOf(batches) ==
    \E batch \in batches :
      \E failed \in SUBSET ChunkStarts(Len(batch)) :
        LET out == upsertSignals(raw_signals, batch, clock, failed)
        IN /\ raw_signals' = out.table
           /\ op' = "upsertSignals"
           /\ ret' = [batch |-> batch, failed |-> failed,
                      inserted |-> out.inserted, errors |-> out.errors]
           /\ UNCHANGED <<clock, insights, runs, mock, calls>>

UpsertSignals == UpsertSignalsOf(Batches)

WindowHours == {1, 2}

\* computeVelocity(windowHours, now): now defaults to the clock and may be
\* given; the two queries return their rows in an order the store chooses.
ComputeVelocity ==
    \E windowHours \in WindowHours :
      \E now \in {clock} \cup {t \in {clock - HourMs} : t >= 0} :
        \E currentFails, previousFails \in BOOLEAN :
          LET currentStart == now - windowHours * HourMs
              previousStart == currentStart - windowHours * HourMs
              current == dbSelectWindow(raw_signals, currentStart, now)
              previous == dbSelectWindow(raw_signals, previousStart, currentStart)
          IN \E out \in computeVelocity(raw_signals, windowHours, now,
                                        currentFails, previousFails) :
               /\ op' = "computeVelocity"
               /\ ret' = [windowHours |-> windowHours, now |-> now,
                          currentFails |-> currentFails,
                          previousFails |-> previousFails,
                          threw |-> out.threw,
                          current |-> IF out.threw THEN {} ELSE current,
                          previous |-> IF out.threw THEN {} ELSE previous,
                          scores |-> out.scores]
               /\ UNCHANGED <<clock, raw_signals, insights, runs, mock, calls>>

Next == Tick \/ UpsertSignals \/ ComputeVelocity

Spec == Init /\ [][Next]_vars

(***************************************************************************)
(* computeVelocity over a mocked store (tests/twitter.test.ts): the two    *)
(* queries return mock.current and mock.previous rows tagged "ai".         *)
(***************************************************************************)
PreviousCounts == (0..MaxCount) \cup {LargePrevious}

\* Small counts, and the counts next to one and a half times LargePrevious,
\* where the velocity is next to 50.
CurrentCounts ==
    (0..MaxCount)
    \cup {c \in LargePrevious..(2 * LargePrevious) :
            2 * c - 3 * LargePrevious \in -3..3}

InitScore ==
    /\ clock = 0
    /\ raw_signals = {}
    /\ insights = {}
    /\ op = "init"
    /\ ret = [none |-> TRUE]
    /\ runs = 0
    /\ calls = NoCalls
    /\ mock \in [current : CurrentCounts, previous : PreviousCounts]

ComputeVelocityMocked ==
    /\ op = "init"
    /\ op' = "computeVelocity"
    /\ ret' = [scores |-> scoresOf(uniformCounts("ai", mock.current),
                                   uniformCounts("ai", mock.previous))]
    /\ UNCHANGED <<clock, raw_signals, insights, runs, mock, calls>>

NextScore == ComputeVelocityMocked

SpecScore == InitScore /\ [][NextScore]_vars

(***************************************************************************)
(* Trust table of the site generator                                       *)
(***************************************************************************)
\* CURATED_FEEDS (curated-feeds.ts): source and trust of each feed config.
CURATED_FEEDS ==
    { [source |-> "techmeme", trust |-> "editor"],
      [source |-> "hn-digest", trust |-> "crowd"],
      [source |-> "simon-willison", trust |-> "expert"],
      [source |-> "import-ai", trust |-> "expert"],
      [source |-> "alphasignal", trust |-> "expert"],
      [source |-> "last-week-ai", trust |-> "expert"],
      [source |-> "ahead-of-ai", trust |-> "expert"],
      [source |-> "marktechpost", trust |-> "expert"],
      [source |-> "github-trending", trust |-> "algorithm"],
      [source |-> "hf-papers", trust |-> "crowd"],
      [source |-> "openai-news", trust |-> "primary"],
      [source |-> "google-research", trust |-> "primary"],
      [source |-> "bair", trust |-> "primary"] }

LegacySources == {"google-trends", "reddit", "arxiv", "moltbook", "twitter"}

\* const SOURCE_TRUST = {legacy sources: 'raw'}; then, for each curated feed,
\* SOURCE_TRUST[feed.source] = feed.trust.
SOURCE_TRUST ==
    [src \in LegacySources \cup {f.source : f \in CURATED_FEEDS} |->
        IF \E f \in CURATED_FEEDS : f.source = src
        THEN (CHOOSE f \in CURATED_FEEDS : f.source = src).trust
        ELSE "raw"]

\* The tables and the grouping maps of the code are plain objects ({}), so
\* obj[key] of a key the object does not own yields what Object.prototype
\* holds under that name, if anything: a function, which is truthy, is not
\* nullish and has no push.  Two of those names stand for all of them.
ObjectPrototypeKeys == {"constructor", "toString"}

\* String(Object.prototype[key])
inheritedText(key) ==
    IF key = "constructor" THEN "function Object() { [native code] }"
    ELSE "function toString() { [native code] }"

\* String(SOURCE_TRUST[src] ?? 'raw')
tierOf(src) ==
    IF src \in DOMAIN SOURCE_TRUST THEN SOURCE_TRUST[src]
    ELSE IF src \in ObjectPrototypeKeys THEN inheritedText(src)
    ELSE "raw"

(***************************************************************************)
(* Synthesis output and its validation                                     *)
(*                                                                         *)
(* A field that may be undefined is a sequence: <<>> when undefined, <<v>>  *)
(* when it holds v.  confidence is in tenths.  summary is handled as topic *)
(* is and is left out.                                                     *)
(***************************************************************************)
Item(type, topic, sources, confidence, priority, tiers) ==
    [insight_type |-> type, topic |-> topic, sources |-> sources,
     confidence |-> confidence, priority |-> priority, convergence_tiers |-> tiers]

\* Elements the synthesis step returns: a p0 resting on one raw source that
\* asserts three tiers; the same sources with another priority and no asserted
\* tiers; a gap finding with no priority, no sources and confidence 1.5.
ItemSeq ==
    << Item(<<"trend">>, <<"tA">>, << <<"reddit">> >>, <<9>>, <<"p0">>,
            << <<"editor", "crowd", "expert">> >>),
       Item(<<"gap">>, <<"tB">>, << <<"reddit">> >>, <<9>>, <<"p2">>, <<>>),
       Item(<<"gap">>, <<"tC">>, <<>>, <<15>>, <<>>, <<>>) >>

ItemSamples == {ItemSeq[k] : k \in 1..Len(ItemSeq)}

MaxItems == 2

\* The arrays the synthesis step returns: up to MaxItems distinct elements,
\* in the order of ItemSeq.
ItemBatches ==
    {SelectSeq(ItemSeq, LAMBDA x : x \in chosen) :
        chosen \in {c \in SUBSET ItemSamples : Cardinality(c) <= MaxItems}}

\* What the claude subprocess can do: fail to spawn, or close with an exit code
\* (null when the 180 s timeout killed it) after writing stdout.  stdout is
\* prose without a bracketed array, a bracketed text that is not JSON, or
\* prose around a JSON array of the given elements.
Stdouts ==
    {[kind |-> "prose", items |-> <<>>], [kind |-> "badjson", items |-> <<>>]}
    \cup {[kind |-> "array", items |-> b] : b \in ItemBatches}

ExitCodes == {"0", "1", "null"}

\* A failing exit is paired with prose or with one well-formed array, a clean
\* exit with every stdout.
Outcomes ==
    {[spawned |-> FALSE, code |-> "null", stdout |-> [kind |-> "prose", items |-> <<>>]]}
    \cup {[spawned |-> TRUE, code |-> c, stdout |-> o] :
            c \in ExitCodes \ {"0"},
            o \in {x \in Stdouts : x.kind = "prose" \/ (x.kind = "array" /\ Len(x.items) = 1)}}
    \cup {[spawned |-> TRUE, code |-> "0", stdout |-> o] : o \in Stdouts}

\* What became of the synthesis step, read off the subprocess.
synthesisKind(outcome) ==
    IF ~outcome.spawned THEN "spawn-error"
    ELSE IF outcome.code = "null" THEN "timeout"
    ELSE IF outcome.code # "0" THEN "exit-nonzero"
    ELSE IF outcome.stdout.kind = "prose" THEN "no-array"
    ELSE IF outcome.stdout.kind = "badjson" THEN "unparsable-array"
    ELSE "ok"

\* An element of the parsed array that is not an object: null, a number, a
\* string or an array.  An object is an Item record.
JsonNull == [json |-> "null"]
JsonNumber == [json |-> "number"]
JsonString == [json |-> "string"]
JsonArray == [json |-> "array"]

isObject(item) == "json" \notin DOMAIN item

\* Mutant: a missing priority is left undefined.
parseItemNoPriorityDefault(item) ==
    IF ~isObject(item)
    THEN [insight_type |-> "undefined", topic |-> "", sources |-> <<>>,
          confidence |-> 0, priority |-> "undefined", convergence_tiers |-> <<>>]
    ELSE [insight_type |-> IF item.insight_type = <<>> THEN "undefined"
                           ELSE item.insight_type[1],
          topic |-> IF item.topic = <<>> THEN "" ELSE item.topic[1],
          sources |-> IF item.sources = <<>> THEN <<>> ELSE item.sources[1],
          confidence |-> IF item.confidence = <<>> THEN 0 ELSE item.confidence[1],
          priority |-> IF item.priority = <<>> THEN "undefined" ELSE item.priority[1],
          convergence_tiers |-> item.convergence_tiers]

\* The object built for one element of the parsed array (analyze.ts:264-272).
\* Every property of a number, a string or an array that the callback reads
\* is undefined, as a missing property of an object is.
parseItem(item) ==
    IF ~isObject(item)
    THEN [insight_type |-> "undefined", topic |-> "", sources |-> <<>>,
          confidence |-> 0, priority |-> "p2", convergence_tiers |-> <<>>]
    ELSE [insight_type |-> IF item.insight_type = <<>> THEN "undefined"
                           ELSE item.insight_type[1],
          topic |-> IF item.topic = <<>> THEN "" ELSE item.topic[1],
          sources |-> IF item.sources = <<>> THEN <<>> ELSE item.sources[1],
          confidence |-> IF item.confidence = <<>> THEN 0 ELSE item.confidence[1],
          priority |-> IF item.priority = <<>> THEN "p2" ELSE item.priority[1],
          convergence_tiers |-> item.convergence_tiers]

\* parseInsightsResponse on what match and JSON.parse made of stdout: throws
\* when no array is matched, when JSON.parse fails, and when the callback of
\* parsed.map reads item.insight_type of a null element (TypeError).
parseInsightsResponse(stdout) ==
    IF stdout.kind = "prose"
    THEN [threw |-> TRUE, message |-> "No JSON array found in Claude response",
          insights |-> <<>>]
    ELSE IF stdout.kind = "badjson"
    THEN [threw |-> TRUE, message |-> "SyntaxError", insights |-> <<>>]
    ELSE IF \E k \in 1..Len(stdout.items) : stdout.items[k] = JsonNull
    THEN [threw |-> TRUE, message |-> "TypeError", insights |-> <<>>]
    ELSE [threw |-> FALSE, message |-> "",
          insights |-> [k \in 1..Len(stdout.items) |-> parseItem(stdout.items[k])]]

(***************************************************************************)
(* The text of stdout and its extraction                                   *)
(*                                                                         *)
(* The text is a sequence of tokens: a run of prose without brackets, an   *)
(* opening bracket, a closing bracket, or the text of a JSON value that is *)
(* not an array (the commas between values are left out).                  *)
(***************************************************************************)
MaxTokens == 4

Prose == [tok |-> "w"]
Open == [tok |-> "["]
Close == [tok |-> "]"]
Value(v) == [tok |-> "el", el |-> v]

\* The values the synthesis step writes as array elements: a full object, an
\* object without any field, null, a number and a string.
ElementSamples ==
    { Item(<<"trend">>, <<"tA">>, << <<"reddit">> >>, <<9>>, <<"p0">>,
           << <<"editor", "crowd", "expert">> >>),
      Item(<<>>, <<>>, <<>>, <<>>, <<>>, <<>>),
      JsonNull, JsonNumber, JsonString }

TokenSamples == {Prose, Open, Close} \cup {Value(v) : v \in ElementSamples}

RawOutputs == UNION {[1..n -> TokenSamples] : n \in 0..MaxTokens}

SetMin(S) == CHOOSE x \in S : \A y \in S : x <= y

SetMax(S) == CHOOSE x \in S : \A y \in S : y <= x

\* output.match(/\[[\s\S]*\]/): null (<<>>) without an opening bracket that has
\* a closing one behind it; otherwise the text from the first opening bracket
\* to the last closing bracket of the output (the quantifier is greedy).
matchBracketed(output) ==
    LET opens == {i \in 1..Len(output) : output[i] = Open}
        closes == {i \in 1..Len(output) :
                     output[i] = Close /\ opens # {} /\ i > SetMin(opens)}
    IN IF closes = {} THEN <<>>
       ELSE <<SubSeq(output, SetMin(opens), SetMax(closes))>>

RECURSIVE scanJson(_, _, _, _)
\* JSON.parse of a text that opens with a bracket, token by token: depth is
\* the number of arrays open, acc the elements of the outermost array so far.
\* Prose, and anything behind the end of the outermost array, is a SyntaxError.
scanJson(text, i, depth, acc) ==
    IF i > Len(text) THEN [ok |-> depth = 0, value |-> acc]
    ELSE IF text[i] = Prose \/ (depth = 0 /\ i > 1)
    THEN [ok |-> FALSE, value |-> <<>>]
    ELSE IF text[i] = Open
    THEN scanJson(text, i + 1, depth + 1,
                  IF depth = 1 THEN Append(acc, JsonArray) ELSE acc)
    ELSE IF text[i] = Close
    THEN scanJson(text, i + 1, depth - 1, acc)
    ELSE scanJson(text, i + 1, depth,
                  IF depth = 1 THEN Append(acc, text[i].el) ELSE acc)

\* JSON.parse(jsonMatch[0])
JSONparse(text) == scanJson(text, 1, 0, <<>>)

\* Lines 254-262 of parseInsightsResponse: what the match and JSON.parse make
\* of the output.
readStdout(output) ==
    LET jsonMatch == matchBracketed(output)
    IN IF jsonMatch = <<>> THEN [kind |-> "prose", items |-> <<>>]
       ELSE LET parsed == JSONparse(jsonMatch[1])
            IN IF ~parsed.ok THEN [kind |-> "badjson", items |-> <<>>]
               ELSE [kind |-> "array", items |-> parsed.value]

InitParse ==
    /\ clock = 0
    /\ raw_signals = {}
    /\ insights = {}
    /\ op = "init"
    /\ ret = [none |-> TRUE]
    /\ runs = 0
    /\ calls = NoCalls
    /\ mock \in [output : RawOutputs]

\* parseInsightsResponse(output)
ParseInsightsResponse ==
    /\ op = "init"
    /\ op' = "parseInsightsResponse"
    /\ LET stdout == readStdout(mock.output)
           out == parseInsightsResponse(stdout)
       IN ret' = [output |-> mock.output, threw |-> out.threw,
                  message |-> out.message, insights |-> out.insights]
    /\ UNCHANGED <<clock, raw_signals, insights, runs, mock, calls>>

NextParse == ParseInsightsResponse

SpecParse == InitParse /\ [][NextParse]_vars

\* Mutant: the exit code is not looked at; stdout is parsed whenever the
\* process closed.
runClaudeAnalysisAnyExit(outcome) ==
    IF ~outcome.spawned
    THEN [rejected |-> TRUE, message |-> "Failed to spawn claude", insights |-> <<>>]
    ELSE LET parsed == parseInsightsResponse(outcome.stdout)
         IN IF parsed.threw
            THEN [rejected |-> TRUE, message |-> "Failed to parse Claude response",
                  insights |-> <<>>]
            ELSE [rejected |-> FALSE, message |-> "", insights |-> parsed.insights]

\* runClaudeAnalysis: rejects on 'error', on close with code !== 0, and when
\* parseInsightsResponse throws; resolves with the insights otherwise.
runClaudeAnalysis(outcome) ==
    IF ~outcome.spawned
    THEN [rejected |-> TRUE, message |-> "Failed to spawn claude", insights |-> <<>>]
    ELSE IF outcome.code # "0"
    THEN [rejected |-> TRUE, message |-> "claude -p exited with code", insights |-> <<>>]
    ELSE LET parsed == parseInsightsResponse(outcome.stdout)
         IN IF parsed.threw
            THEN [rejected |-> TRUE, message |-> "Failed to parse Claude response",
                  insights |-> <<>>]
            ELSE [rejected |-> FALSE, message |-> "", insights |-> parsed.insights]

(***************************************************************************)
(* insights: insert                                                        *)
(***************************************************************************)
VALID_TYPES == {"trend", "consensus", "divergence", "tool_mention"}

\* One row of insertInsights: convergence_tiers stripped, insight_type
\* remapped, analyzed_at read from the clock when the row is built.  id stands
\* for the uuid the table generates.
insightRow(i, id, now) ==
    [id |-> id,
     insight_type |-> IF i.insight_type \in VALID_TYPES
                      THEN i.insight_type ELSE "divergence",
     topic |-> i.topic, sources |-> i.sources, confidence |-> i.confidence,
     priority |-> i.priority, analyzed_at |-> now]

\* The checks of table insights (001_init.sql:43-44).
rowAccepted(row) ==
    /\ row.insight_type \in VALID_TYPES
    /\ row.confidence >= 0
    /\ row.confidence <= 10

\* Mutant: each row inserted on its own, the rejected ones left out.
dbInsertRowByRow(table, rows, storeFails) ==
    IF storeFails
    THEN [table |-> table, failed |-> TRUE, inserted |-> 0]
    ELSE LET ok == {rows[k] : k \in {j \in 1..Len(rows) : rowAccepted(rows[j])}}
         IN [table |-> table \cup ok, failed |-> Cardinality(ok) < Len(rows),
             inserted |-> Cardinality(ok)]

\* .from('insights').insert(rows).select('id'): one INSERT statement, which
\* stores every row or, on a store error or a rejected row, none.
dbInsert(table, rows, storeFails) ==
    IF storeFails \/ \E k \in 1..Len(rows) : ~rowAccepted(rows[k])
    THEN [table |-> table, failed |-> TRUE, inserted |-> 0]
    ELSE [table |-> table \cup {rows[k] : k \in 1..Len(rows)}, failed |-> FALSE,
          inserted |-> Len(rows)]

\* insertInsights: at[k] is the clock reading of the new Date() that builds row k.
insertInsights(table, list, run, at, storeFails) ==
    LET rows == [k \in 1..Len(list) |-> insightRow(list[k], <<run, k>>, at[k])]
        out == dbInsert(table, rows, storeFails)
    IN [table |-> out.table,
        inserted |-> IF out.failed THEN 0 ELSE out.inserted,
        errors |-> IF out.failed THEN <<"Insert insights">> ELSE <<>>]

(***************************************************************************)
(* Prompt compiler                                                         *)
(*                                                                         *)
(* A string the code builds by concatenation is the sequence of its        *)
(* pieces; the empty string is <<>>.  A template literal is a piece named  *)
(* by its section, and TemplateText gives the phrases its text holds.      *)
(***************************************************************************)
HotTopicsCap == 10

\* Mutant: the loop over CURATED_FEEDS is missing; only the legacy sources
\* are in the table.
SOURCE_TRUST_analyzeLegacyOnly == [src \in LegacySources |-> "raw"]

\* SOURCE_TRUST of analyze.ts:10-21.
SOURCE_TRUST_analyze ==
    [src \in LegacySources \cup {f.source : f \in CURATED_FEEDS} |->
        IF \E f \in CURATED_FEEDS : f.source = src
        THEN (CHOOSE f \in CURATED_FEEDS : f.source = src).trust
        ELSE "raw"]

\* SOURCE_TRUST[source] ?? 'raw' (analyze.ts:155, 187)
promptTierOf(src) ==
    IF src \in DOMAIN SOURCE_TRUST_analyze THEN SOURCE_TRUST_analyze[src]
    ELSE IF src \in ObjectPrototypeKeys THEN inheritedText(src)
    ELSE "raw"

\* SOURCE_NAMES of analyze.ts:24-34: the display names of the legacy sources,
\* then feed.name of every curated feed.
SOURCE_NAMES ==
    [src \in LegacySources \cup {f.source : f \in CURATED_FEEDS} |->
        CASE src = "google-trends" -> "Google Trends"
          [] src = "reddit" -> "Reddit"
          [] src = "arxiv" -> "arXiv"
          [] src = "moltbook" -> "Moltbook"
          [] src = "twitter" -> "X/Twitter"
          [] src = "techmeme" -> "TechMeme"
          [] src = "hn-digest" -> "HN Digest"
          [] src = "simon-willison" -> "Simon Willison"
          [] src = "import-ai" -> "Import AI (Jack Clark)"
          [] src = "alphasignal" -> "AlphaSignal"
          [] src = "last-week-ai" -> "Last Week in AI"
          [] src = "ahead-of-ai" -> "Ahead of AI (Raschka)"
          [] src = "marktechpost" -> "MarkTechPost"
          [] src = "github-trending" -> "GitHub Trending"
          [] src = "hf-papers" -> "HuggingFace Papers"
          [] src = "openai-news" -> "OpenAI News"
          [] src = "google-research" -> "Google Research"
          [] OTHER -> "BAIR"]

\* SOURCE_NAMES[source] ?? source (analyze.ts:157, 188)
promptNameOf(src) ==
    IF src \in DOMAIN SOURCE_NAMES THEN SOURCE_NAMES[src]
    ELSE IF src \in ObjectPrototypeKeys THEN inheritedText(src)
    ELSE src

\* scores.filter(s => s.is_hot)
RECURSIVE filterHot(_)
filterHot(scores) ==
    IF scores = <<>> THEN <<>>
    ELSE IF Head(scores).is_hot THEN <<Head(scores)>> \o filterHot(Tail(scores))
         ELSE filterHot(Tail(scores))

\* Mutant: every score is listed, hot or not.
formatHotTopicsAll(scores) ==
    IF scores = <<>> THEN <<>>
    ELSE <<[section |-> "hot-topics"]>>
         \o [k \in 1..Min(HotTopicsCap, Len(scores)) |->
               [section |-> "hot-line", topic |-> scores[k].topic,
                velocity |-> scores[k].velocity,
                previous_count |-> scores[k].previous_count,
                current_count |-> scores[k].current_count]]

\* formatHotTopics: '' without a hot score, otherwise the header and one line
\* for each of the first ten hot scores.
formatHotTopics(scores) ==
    LET hot == filterHot(scores)
    IN IF Len(hot) = 0 THEN <<>>
       ELSE <<[section |-> "hot-topics"]>>
            \o [k \in 1..Min(HotTopicsCap, Len(hot)) |->
                  [section |-> "hot-line", topic |-> hot[k].topic,
                   velocity |-> hot[k].velocity,
                   previous_count |-> hot[k].previous_count,
                   current_count |-> hot[k].current_count]]

\* Phrases of the template literals of buildPrompt and formatHotTopics.
TemplateText ==
    [counsel |-> {"LLM Counsel", "THE ANTI-NOISE FILTER", "ABSENCE", "REVERSALS",
                  "PRIORITY RULES", "Panel"},
     legacy |-> {"trend intelligence analyst"},
     signals |-> {"Signals by Source (compressed)"},
     knowledge |-> {"LLM Knowledge"},
     instructions |-> {"Analysis Instructions", "apply the anti-noise filter FIRST",
                       "Output Format"}]

\* prompt.includes(phrase), for the phrases of the templates.
promptContains(prompt, phrase) ==
    \E k \in 1..Len(prompt) :
        /\ prompt[k].section \in DOMAIN TemplateText
        /\ phrase \in TemplateText[prompt[k].section]

\* Object.keys(grouped): the sources in the order they are first met.
groupedKeys(signals) == appendNew(<<>>, [k \in 1..Len(signals) |-> signals[k].source])

\* The keys of byTier and of subGroups, in the order they are first met.
keysInOrder(values) == appendNew(<<>>, values)

\* item.tags[0] ?? 'general'
primaryTag(signal) == IF signal.tags = <<>> THEN "general" ELSE signal.tags[1]

RECURSIVE tagOccurrences(_)
\* for (const s of signals) for (const tag of s.tags): the lower-cased tag
\* and the score of its signal, in the order met.
tagOccurrences(signals) ==
    IF signals = <<>> THEN <<>>
    ELSE [k \in 1..Len(Head(signals).tags) |->
            [tag |-> toLowerCase(Head(signals).tags[k]), score |-> Head(signals).score]]
         \o tagOccurrences(Tail(signals))

RECURSIVE sumScores(_)
\* entry.totalScore += s.score: NaN (<<>>) once a score is undefined.
sumScores(occ) ==
    IF occ = <<>> THEN <<0>>
    ELSE LET rest == sumScores(Tail(occ))
         IN IF Head(occ).score = <<>> \/ rest = <<>> THEN <<>>
            ELSE <<Head(occ).score[1] + rest[1]>>

RECURSIVE insertByCount(_, _)
\* The stable sort of (a, b) => b.count - a.count, one element at a time.
insertByCount(sorted, x) ==
    IF sorted = <<>> THEN <<x>>
    ELSE IF Head(sorted).count >= x.count
         THEN <<Head(sorted)>> \o insertByCount(Tail(sorted), x)
         ELSE <<x>> \o sorted

RECURSIVE sortByCount(_, _)
sortByCount(sorted, rest) ==
    IF rest = <<>> THEN sorted
    ELSE sortByCount(insertByCount(sorted, Head(rest)), Tail(rest))

\* aggregateByTag(signals, topN): per lower-cased tag its count and
\* Math.round(totalScore / count) (NaN is <<>>), by count descending, the
\* first topN.
aggregateByTag(signals, topN) ==
    LET occ == tagOccurrences(signals)
        tags == appendNew(<<>>, [k \in 1..Len(occ) |-> occ[k].tag])
        entry(t) ==
            LET mine == SelectSeq(occ, LAMBDA o : o.tag = t)
                total == sumScores(mine)
            IN [tag |-> t, count |-> Len(mine),
                avgScore |-> IF total = <<>> THEN <<>>
                             ELSE <<MathRound(total[1], Len(mine))>>]
        sorted == sortByCount(<<>>, [k \in 1..Len(tags) |-> entry(tags[k])])
    IN SubSeq(sorted, 1, Min(topN, Len(sorted)))

TopTagsOfGroup == 3

\* The "- group (n, authors): Top topics: tag (count), ..." line of one
\* sub-group of a source.
groupLine(items, group) ==
    LET groupItems == SelectSeq(items, LAMBDA i : primaryTag(i) = group)
        topTags == aggregateByTag(groupItems, TopTagsOfGroup)
    IN [group |-> group, n |-> Len(groupItems),
        topTopics |-> [k \in 1..Len(topTags) |->
                         [tag |-> topTags[k].tag, count |-> topTags[k].count]]]

\* The pieces of one "### name [trust] (n signals across k groups)" block and
\* the lines of its sub-groups.
sourceBlock(signals, source) ==
    LET items == SelectSeq(signals, LAMBDA x : x.source = source)
        subGroups == keysInOrder([k \in 1..Len(items) |-> primaryTag(items[k])])
    IN [section |-> "source", source |-> source, name |-> promptNameOf(source),
        trust |-> promptTierOf(source),
        signals |-> Len(items),
        groups |-> Len(subGroups),
        lines |-> [g \in 1..Len(subGroups) |-> groupLine(items, subGroups[g])]]

\* Whether buildPrompt throws a TypeError: grouped[s.source] or
\* subGroups[key] is an inherited function, on which push is not a function
\* (analyze.ts:80-81, 182-183), or item.tags is undefined and item.tags[0]
\* reads a property of undefined (analyze.ts:181).
buildPromptRaises(signals) ==
    \E k \in 1..Len(signals) :
        \/ signals[k].source \in ObjectPrototypeKeys
        \/ "tags" \notin DOMAIN signals[k]
        \/ /\ "tags" \in DOMAIN signals[k]
           /\ signals[k].tags # <<>>
           /\ signals[k].tags[1] \in ObjectPrototypeKeys

\* The "### tier" blocks of the Panel, with the sources of each tier.
panelBlocks(sources) ==
    LET tiers == keysInOrder([k \in 1..Len(sources) |-> promptTierOf(sources[k])])
    IN [t \in 1..Len(tiers) |->
          [section |-> "panel", tier |-> tiers[t],
           sources |-> SelectSeq(sources, LAMBDA x : promptTierOf(x) = tiers[t])]]

\* Mutant: the counsel template is chosen whatever the sources are.
hasCuratedSourcesAlways(sources) == TRUE

\* Object.keys(grouped).some(s => SOURCE_TRUST[s] && SOURCE_TRUST[s] !== 'raw')
hasCuratedSources(sources) ==
    \E k \in 1..Len(sources) :
        /\ sources[k] \in DOMAIN SOURCE_TRUST_analyze
        /\ SOURCE_TRUST_analyze[sources[k]] # "raw"

\* if (hotTopics) { prompt += hotTopics; prompt += '\n' }
appendHotTopics(hotTopics) == IF hotTopics # <<>> THEN hotTopics ELSE <<>>

\* buildPrompt(signals, hotTopics, llmKnowledge).
buildPrompt(signals, hotTopics, llmKnowledge) ==
    LET sources == groupedKeys(signals)
        sourceCount == Len(sources)
        head == IF hasCuratedSources(sources)
                THEN <<[section |-> "counsel", sourceCount |-> sourceCount]>>
                     \o panelBlocks(sources)
                ELSE <<[section |-> "legacy", sourceCount |-> sourceCount]>>
    IN head
       \o <<[section |-> "signals"]>>
       \o [k \in 1..Len(sources) |-> sourceBlock(signals, sources[k])]
       \o (IF llmKnowledge # "" THEN <<[section |-> "knowledge", text |-> llmKnowledge]>>
           ELSE <<>>)
       \o appendHotTopics(hotTopics)
       \o <<[section |-> "instructions"]>>

\* What getLLMKnowledge resolves with: the trimmed stdout (possibly empty) or
\* the notice it substitutes when the subprocess fails.
LLMKnowledge == {"", "(LLM knowledge unavailable for this run)"}

(***************************************************************************)
(* Analysis and research runs                                              *)
(***************************************************************************)
MaxRuns == 1
MaxMs == 1
MaxMapMs == 1
SignalLimit == 500
DayMs == 86400000

\* getLastAnalysisTime: the greatest analyzed_at, or null (here <<>>) when the
\* query fails or the table is empty.
getLastAnalysisTime(table, queryFails) ==
    IF queryFails \/ table = {} THEN <<>>
    ELSE <<SetMax({r.analyzed_at : r \in table})>>

\* getSignalsSince: the possible results of
\* .gte('scraped_at', since).order('scraped_at', desc).limit(500).
getSignalsSince(table, since) ==
    LET hit == {r \in table : r.scraped_at >= since}
    IN {page \in SUBSET hit :
          /\ Cardinality(page) = Min(SignalLimit, Cardinality(hit))
          /\ \A a \in page, b \in hit \ page : a.scraped_at >= b.scraped_at}

\* Clock readings of the n new Date() calls of one rows.map(...): they do not
\* decrease and span at most MaxMapMs, and stay within the model's horizon.
MapReadings(n) ==
    {at \in [1..n -> clock..Min(clock + MaxMapMs, MaxMs)] :
        \A j, k \in 1..n : j < k => at[j] <= at[k]}

DefaultWindowHours == 4

NoVelocity ==
    [called |-> FALSE, currentFails |-> FALSE, previousFails |-> FALSE,
     threw |-> FALSE, scores |-> <<>>]

\* What a run writes to the console after synthesis and after insertInsights
\* (analyze.ts:321, 326, 412); insertInsights itself writes nothing.
runLog(name, generated, stored) ==
    IF name = "runAnalysis"
    THEN <<[line |-> "Generated insights", n |-> generated],
           [line |-> "Stored insights in Supabase", n |-> stored]>>
    ELSE <<[line |-> "Research: insights generated, stored", n |-> generated,
            stored |-> stored]>>

\* The tail shared by runAnalysis (analyze.ts:319-332) and runResearch
\* (analyze.ts:408-417): synthesis, then insertInsights, inside one try.
runTail(name, failLabel, errors, nSignals, velocity, prompt, outcomes) ==
    \E outcome \in outcomes :
      LET syn == runClaudeAnalysis(outcome)
      IN IF syn.rejected
         THEN /\ insights' = insights
              /\ clock' = clock
              /\ ret' = [signals |-> nSignals, synthesis |-> synthesisKind(outcome),
                         validated |-> <<>>,
                         insertCalled |-> FALSE, inserted |-> 0,
                         insights |-> <<>>,
                         errors |-> Append(errors, failLabel),
                         velocity |-> velocity, prompt |-> prompt,
                         log |-> <<>>]
         ELSE \E at \in MapReadings(Len(syn.insights)), storeFails \in BOOLEAN :
                LET out == insertInsights(insights, syn.insights, runs + 1, at,
                                          storeFails)
                IN /\ insights' = out.table
                   /\ clock' = IF Len(syn.insights) = 0 THEN clock
                               ELSE at[Len(syn.insights)]
                   /\ ret' = [signals |-> nSignals, synthesis |-> synthesisKind(outcome),
                              validated |-> syn.insights,
                              insertCalled |-> TRUE, inserted |-> out.inserted,
                              insights |-> syn.insights,
                              errors |-> errors \o out.errors,
                              velocity |-> velocity, prompt |-> prompt,
                              log |-> runLog(name, Len(syn.insights), out.inserted)]

\* The rows of a page in the order .order('scraped_at', {ascending: false})
\* can give them.
pageOrders(page) ==
    {o \in Orderings(page) :
        \A j, k \in 1..Len(o) : j < k => o[j].scraped_at >= o[k].scraped_at}

\* runAnalysis.  The velocity step (analyze.ts:292-303) and the LLM-knowledge
\* step read only; a failure of the velocity step is pushed to errors and the
\* run goes on with hotTopics ''.  windowFailures are the pairs (current
\* window query fails, previous window query fails) the run can meet,
\* knowledge the texts getLLMKnowledge can resolve to, outcomes what the
\* synthesis subprocess can do.
runAnalysis(windowFailures, knowledge, outcomes) ==
    /\ runs < MaxRuns
    /\ runs' = runs + 1
    /\ op' = "runAnalysis"
    /\ UNCHANGED <<raw_signals, mock, calls>>
    /\ \E lastFails \in BOOLEAN :
         LET lastAnalysis == getLastAnalysisTime(insights, lastFails)
             since == IF lastAnalysis = <<>> THEN clock - DayMs ELSE lastAnalysis[1]
         IN \E page \in getSignalsSince(raw_signals, since) :
              IF page = {}
              THEN /\ ret' = [signals |-> 0, synthesis |-> "skipped",
                              validated |-> <<>>, insertCalled |-> FALSE,
                              inserted |-> 0, insights |-> <<>>, errors |-> <<>>,
                              velocity |-> NoVelocity, prompt |-> <<>>,
                              log |-> <<[line |-> "No new signals to analyze."]>>]
                   /\ UNCHANGED <<insights, clock>>
              ELSE \E signals \in pageOrders(page),
                      fails \in windowFailures,
                      llmKnowledge \in knowledge :
                     \E vel \in computeVelocity(raw_signals, DefaultWindowHours, clock,
                                                fails[1], fails[2]) :
                       LET hotTopics == IF vel.threw THEN <<>>
                                        ELSE formatHotTopics(vel.scores)
                       IN runTail("runAnalysis", "Analysis failed",
                                  IF vel.threw
                                  THEN <<"Velocity computation failed (non-fatal)">>
                                  ELSE <<>>,
                                  Len(signals),
                                  [called |-> TRUE, currentFails |-> fails[1],
                                   previousFails |-> fails[2],
                                   threw |-> vel.threw, scores |-> vel.scores],
                                  buildPrompt(signals, hotTopics, llmKnowledge),
                                  outcomes)

\* A run between publications: both window queries answer or the first one
\* fails, the knowledge step gives nothing, the subprocess does anything.
RunAnalysis ==
    runAnalysis({<<FALSE, FALSE>>, <<TRUE, FALSE>>}, {""}, Outcomes)

\* runResearch(topic): no signals are read and no velocity is computed.
RunResearch ==
    /\ runs < MaxRuns
    /\ runs' = runs + 1
    /\ op' = "runResearch"
    /\ UNCHANGED <<raw_signals, mock, calls>>
    /\ runTail("runResearch", "Research failed", <<>>, 0, NoVelocity,
               <<[section |-> "research"]>>, Outcomes)

(***************************************************************************)
(* Publisher: convergence block and JSON feed                              *)
(***************************************************************************)
\* Mutant: the tiers the synthesis step asserted are counted when it gave any.
buildConvergenceTrusting(insight) ==
    IF insight.sources = <<>> THEN <<>>
    ELSE LET claimed == IF "convergence_tiers" \in DOMAIN insight
                           /\ insight.convergence_tiers # <<>>
                        THEN insight.convergence_tiers[1] ELSE <<>>
             tiers == IF claimed # <<>>
                      THEN claimed
                      ELSE [k \in 1..Len(insight.sources) |-> tierOf(insight.sources[k])]
         IN << [source_count |-> Len(insight.sources),
                sources |-> insight.sources,
                trust_tiers |-> [t \in {tiers[k] : k \in 1..Len(tiers)} |->
                                   Cardinality({k \in 1..Len(tiers) : tiers[k] = t})]] >>

\* buildConvergence: undefined (<<>>) without sources; otherwise the number of
\* sources and, per tier, the number of sources the trust table puts in it.
buildConvergence(insight) ==
    IF insight.sources = <<>> THEN <<>>
    ELSE LET tiers == [k \in 1..Len(insight.sources) |-> tierOf(insight.sources[k])]
         IN << [source_count |-> Len(insight.sources),
                sources |-> insight.sources,
                trust_tiers |-> [t \in {tiers[k] : k \in 1..Len(tiers)} |->
                                   Cardinality({k \in 1..Len(tiers) : tiers[k] = t})]] >>

\* date.toISOString().split('T')[0]: the UTC day of the instant, here its
\* number.
formatDate(date) == date \div DayMs

\* insight.priority ?? 'p2'
priorityOrP2(insight) ==
    IF "priority" \in DOMAIN insight THEN insight.priority ELSE "p2"

\* insight.sources ?? []
sourcesOrNone(insight) ==
    IF "sources" \in DOMAIN insight THEN insight.sources ELSE <<>>

\* Mutant: a convergence block is built for an insight without sources too.
convergenceOfAlways(insight) ==
    LET tiers == [k \in 1..Len(sourcesOrNone(insight)) |-> tierOf(sourcesOrNone(insight)[k])]
    IN << [source_count |-> Len(sourcesOrNone(insight)),
           sources |-> sourcesOrNone(insight),
           trust_tiers |-> [t \in {tiers[k] : k \in 1..Len(tiers)} |->
                              Cardinality({k \in 1..Len(tiers) : tiers[k] = t})]] >>

\* The convergence member of an item: absent (<<>>) when buildConvergence
\* returns undefined, which JSON.stringify leaves out.
convergenceOf(insight) ==
    IF "sources" \notin DOMAIN insight THEN <<>> ELSE buildConvergence(insight)

\* The items of generateJsonFeed (site-generator, items = insights.map(...)).
generateJsonFeed(list, date) ==
    [k \in 1..Len(list) |->
        [id |-> <<formatDate(date), k>>,
         title |-> list[k].topic,
         date_published |-> date,
         tags |-> <<priorityOrP2(list[k]), list[k].insight_type>>
                  \o sourcesOrNone(list[k]),
         deeptrend |-> [priority |-> priorityOrP2(list[k]),
                        insight_type |-> list[k].insight_type,
                        confidence |-> list[k].confidence,
                        convergence |-> convergenceOf(list[k])]]]

\* Mutant: the archive is named after the day of the wall clock.
generateLlmsTxtToday(list, date) ==
    [dateStr |-> clock,
     insights |-> Len(list),
     p0Count |-> Len(SelectSeq(list, LAMBDA i : "priority" \in DOMAIN i /\ i.priority = "p0")),
     p1Count |-> Len(SelectSeq(list, LAMBDA i : "priority" \in DOMAIN i /\ i.priority = "p1"))]

\* generateLlmsTxt: the values the template interpolates.
generateLlmsTxt(list, date) ==
    [dateStr |-> formatDate(date),
     insights |-> Len(list),
     p0Count |-> Len(SelectSeq(list, LAMBDA i : "priority" \in DOMAIN i /\ i.priority = "p0")),
     p1Count |-> Len(SelectSeq(list, LAMBDA i : "priority" \in DOMAIN i /\ i.priority = "p1"))]

\* generateRssFeed: the feed options that depend on the arguments and the
\* items handed to feed.addItem; rss2() renders lastBuildDate from updated
\* and each pubDate from the item's date.
generateRssFeed(list, date) ==
    [updated |-> date,
     items |-> [k \in 1..Len(list) |->
                  [title |-> <<priorityOrP2(list[k]), list[k].topic>>,
                   id |-> <<formatDate(date), k>>,
                   link |-> formatDate(date),
                   date |-> date,
                   category |-> <<priorityOrP2(list[k]), list[k].insight_type>>]]]

\* insights.filter(i => i.priority === p)
filterPriority(list, p) ==
    SelectSeq(list, LAMBDA i : "priority" \in DOMAIN i /\ i.priority = p)

\* renderGroup(priority, group): one "## priority: topic" entry per insight.
renderGroup(priority, group) ==
    [k \in 1..Len(group) |->
        [priority |-> priority, topic |-> group[k].topic,
         insight_type |-> group[k].insight_type,
         confidence |-> group[k].confidence,
         sourceCount |-> Len(sourcesOrNone(group[k])),
         sources |-> sourcesOrNone(group[k]),
         convergence_tiers |-> IF "convergence_tiers" \in DOMAIN group[k]
                               THEN group[k].convergence_tiers ELSE <<>>]]

\* Mutant: the entries are rendered in input order, each under its own
\* priority.
generateInsightMarkdownUngrouped(list, date) ==
    LET p0 == filterPriority(list, "p0")
        p1 == filterPriority(list, "p1")
        p2 == filterPriority(list, "p2")
        all == UNION {{sourcesOrNone(list[k])[j] : j \in 1..Len(sourcesOrNone(list[k]))} :
                        k \in 1..Len(list)}
    IN [date |-> formatDate(date),
        sources_active |-> IF Cardinality(all) = 0 THEN <<>> ELSE <<Cardinality(all)>>,
        insights_count |-> Len(list),
        p0_count |-> Len(p0), p1_count |-> Len(p1), p2_count |-> Len(p2),
        convergence_topics |-> [k \in 1..Len(p0) |-> p0[k].topic],
        body |-> LET shown == SelectSeq(list, LAMBDA i :
                                   "priority" \in DOMAIN i /\ i.priority \in {"p0", "p1", "p2"})
                 IN [k \in 1..Len(shown) |-> renderGroup(shown[k].priority, <<shown[k]>>)[1]]]

\* generateInsightMarkdown: the frontmatter, then the p0, p1 and p2 groups.
\* sources_active is <<>> where the code prints 'unknown'.
generateInsightMarkdown(list, date) ==
    LET p0 == filterPriority(list, "p0")
        p1 == filterPriority(list, "p1")
        p2 == filterPriority(list, "p2")
        all == UNION {{sourcesOrNone(list[k])[j] : j \in 1..Len(sourcesOrNone(list[k]))} :
                        k \in 1..Len(list)}
    IN [date |-> formatDate(date),
        sources_active |-> IF Cardinality(all) = 0 THEN <<>> ELSE <<Cardinality(all)>>,
        insights_count |-> Len(list),
        p0_count |-> Len(p0), p1_count |-> Len(p1), p2_count |-> Len(p2),
        convergence_topics |-> [k \in 1..Len(p0) |-> p0[k].topic],
        body |-> renderGroup("p0", p0) \o renderGroup("p1", p1) \o renderGroup("p2", p2)]

\* The publish command: the rows whose analyzed_at equals the latest
\* analyzed_at, by confidence descending, rendered by publishSite.
Publish ==
    /\ insights # {}
    /\ LET latestTimestamp == SetMax({r.analyzed_at : r \in insights})
           rows == {r \in insights : r.analyzed_at = latestTimestamp}
       IN \E list \in {o \in Orderings(rows) :
                         \A j, k \in 1..Len(o) : j < k => o[j].confidence >= o[k].confidence} :
            ret' = [latest |-> latestTimestamp, rows |-> rows, input |-> list,
                    feed |-> generateJsonFeed(list, clock)]
    /\ op' = "publish"
    /\ UNCHANGED <<clock, raw_signals, insights, runs, mock, calls>>

\* generateJsonFeed called on the insight list a run returned.
GenerateJsonFeed ==
    /\ op \in {"runAnalysis", "runResearch"}
    /\ ret.insights # <<>>
    /\ ret' = [input |-> ret.insights, feed |-> generateJsonFeed(ret.insights, clock)]
    /\ op' = "generateJsonFeed"
    /\ UNCHANGED <<clock, raw_signals, insights, runs, mock, calls>>

\* The signal the scrape command stores between runs.
RunBatches == {<<Signal("reddit", "a", "t1", <<"AI">>)>>}

UpsertOne == UpsertSignalsOf(RunBatches)

TickMs ==
    /\ clock < MaxMs
    /\ clock' = clock + 1
    /\ UNCHANGED <<raw_signals, insights, op, ret, runs, mock, calls>>

NextRun ==
    TickMs \/ UpsertOne \/ RunAnalysis \/ RunResearch \/ Publish \/ GenerateJsonFeed

\* The rows an earlier run left in table insights: none, or one insight.
EarlierInsights ==
    { {},
      {insightRow(parseItem(Item(<<"trend">>, <<"tB">>, << <<"reddit">> >>, <<9>>,
                                 <<"p2">>, <<>>)),
                  <<0, 1>>, 0)} }

InitRun ==
    /\ clock = 0
    /\ raw_signals = {}
    /\ insights \in EarlierInsights
    /\ op = "init"
    /\ ret = [none |-> TRUE]
    /\ runs = 0
    /\ calls = NoCalls
    /\ mock = NoMock

SpecRun == InitRun /\ [][NextRun]_vars

(***************************************************************************)
(* The site generator on its own (the publisher tests)                     *)
(*                                                                         *)
(* mock holds the function under test and the insight list and date handed *)
(* to it; ret holds what its latest call returned (out, <<>> before the    *)
(* first call) and the number of calls so far.                             *)
(***************************************************************************)
MaxPubItems == 2
MaxCalls == 2

\* An insight as the publisher receives it; priority and convergence_tiers
\* are optional properties.
PubInsight(type, topic, sources, confidence) ==
    [insight_type |-> type, topic |-> topic, sources |-> sources,
     confidence |-> confidence]

\* A p0 on three tiers, a p1 on one raw source, a p2 without sources, an
\* insight without priority on an unknown and two curated sources, and a
\* second p0 that asserts tiers.
PubSamples ==
    { [priority |-> "p0"] @@ PubInsight("trend", "tA", <<"techmeme", "hn-digest", "reddit">>, 9),
      [priority |-> "p1"] @@ PubInsight("consensus", "tB", <<"reddit">>, 7),
      [priority |-> "p2"] @@ PubInsight("gap", "tC", <<>>, 5),
      PubInsight("trend", "tD", <<"unknown-blog", "techmeme", "bair">>, 6),
      [priority |-> "p0", convergence_tiers |-> <<"editor", "crowd">>]
          @@ PubInsight("divergence", "tE", <<"arxiv", "simon-willison", "import-ai">>, 8) }

\* The lists handed to the generators: up to MaxPubItems distinct insights.
PubLists ==
    UNION {{l \in [1..n -> PubSamples] : \A j, k \in 1..n : j # k => l[j] # l[k]} :
             n \in 0..MaxPubItems}

\* The dates handed to the generators: the epoch and an instant of the next
\* day.
PubDates == {0, DayMs + HourMs}

Generators ==
    {"generateLlmsTxt", "generateJsonFeed", "generateRssFeed", "generateInsightMarkdown"}

InitPublish ==
    /\ clock = 0
    /\ raw_signals = {}
    /\ insights = {}
    /\ op = "init"
    /\ ret = [out |-> <<>>, n |-> 0]
    /\ runs = 0
    /\ calls = NoCalls
    /\ mock \in [function : Generators \cup {"publishSite"},
                  insights : PubLists, date : PubDates]

\* One more call of the function under test, with the arguments of mock.
CallGenerator(name, out) ==
    /\ mock.function = name
    /\ ret.n < MaxCalls
    /\ op' = name
    /\ ret' = [out |-> <<out>>, n |-> ret.n + 1]
    /\ UNCHANGED <<clock, raw_signals, insights, runs, mock, calls>>

CallGenerateLlmsTxt ==
    CallGenerator("generateLlmsTxt", generateLlmsTxt(mock.insights, mock.date))

CallGenerateJsonFeed ==
    CallGenerator("generateJsonFeed", generateJsonFeed(mock.insights, mock.date))

CallGenerateRssFeed ==
    CallGenerator("generateRssFeed", generateRssFeed(mock.insights, mock.date))

CallGenerateInsightMarkdown ==
    CallGenerator("generateInsightMarkdown",
                  generateInsightMarkdown(mock.insights, mock.date))

\* The files of publishSite in the order they are written.
SiteFiles == <<"llms.txt", "feed.json", "feed.xml", "insights/date.md">>

\* publishSite(insights, outputDir, date): mkdir, then each artifact is
\* generated and written; the first mkdir or writeFile that fails (step
\* failsAt, 0 for mkdir, Len(SiteFiles) + 1 for none) ends the try block with
\* one error.  Without a date argument now is new Date().  written holds
\* the content of each file written.
PublishSite ==
    /\ mock.function = "publishSite"
    /\ ret.n < MaxCalls
    /\ \E withDate \in BOOLEAN, failsAt \in 0..(Len(SiteFiles) + 1) :
         LET now == IF withDate THEN mock.date ELSE clock
             count == IF failsAt = 0 THEN 0 ELSE Min(failsAt - 1, Len(SiteFiles))
             content == <<generateLlmsTxt(mock.insights, now),
                          generateJsonFeed(mock.insights, now),
                          generateRssFeed(mock.insights, now),
                          generateInsightMarkdown(mock.insights, now)>>
         IN ret' = [out |-> <<[now |-> now, withDate |-> withDate,
                               files |-> SubSeq(SiteFiles, 1, count),
                               written |-> SubSeq(content, 1, count),
                               errors |-> IF failsAt <= Len(SiteFiles)
                                          THEN <<"Publish failed">> ELSE <<>>]>>,
                    n |-> ret.n + 1]
    /\ op' = "publishSite"
    /\ UNCHANGED <<clock, raw_signals, insights, runs, mock, calls>>

NextPublish ==
    \/ TickMs
    \/ CallGenerateLlmsTxt
    \/ CallGenerateJsonFeed
    \/ CallGenerateRssFeed
    \/ CallGenerateInsightMarkdown
    \/ PublishSite

SpecPublish == InitPublish /\ [][NextPublish]_vars

(***************************************************************************)
(* buildPrompt on its own (the buildPrompt tests of the analyzer)          *)
(***************************************************************************)
MaxPromptSignals == 2

\* Sources of the signals handed to buildPrompt: two legacy sources, two
\* curated feeds, one source no table knows, and one whose identifier is a
\* name every object inherits.
PromptSources == {"reddit", "arxiv", "techmeme", "hn-digest", "unknown-blog", "constructor"}

\* The signals handed to buildPrompt: one of each source tagged ai with score
\* 3; reddit signals without a tag, without the tags property, with a tag
\* that is an inherited name, and with two tags and no score.
PromptSignals ==
    {[Signal(src, "x", "t1", <<"ai">>) EXCEPT !.score = <<3>>] : src \in PromptSources}
    \cup { Signal("reddit", "y", "t1", <<>>),
           [source |-> "reddit", source_id |-> "z", title |-> "t1", score |-> <<0>>],
           Signal("reddit", "v", "t1", <<"constructor">>),
           [Signal("reddit", "w", "t1", <<"AI", "ml">>) EXCEPT !.score = <<>>] }

PromptBatches == UNION {[1..n -> PromptSignals] : n \in 0..MaxPromptSignals}

\* hotTopics: '' or what formatHotTopics makes of one hot score.
HotTopicTexts == {<<>>, formatHotTopics(<<score("ai", 2, 0)>>)}

InitPrompt ==
    /\ clock = 0
    /\ raw_signals = {}
    /\ insights = {}
    /\ op = "init"
    /\ ret = [none |-> TRUE]
    /\ runs = 0
    /\ calls = NoCalls
    /\ mock \in [signals : PromptBatches, hotTopics : HotTopicTexts,
                  llmKnowledge : LLMKnowledge]

\* What aggregateByTag(groupItems, 3) returns for each sub-group of each
\* source, in the order buildPrompt calls it (analyze.ts:192).
groupAggregates(signals) ==
    LET sources == groupedKeys(signals)
    IN [k \in 1..Len(sources) |->
          LET items == SelectSeq(signals, LAMBDA x : x.source = sources[k])
              subGroups == keysInOrder([j \in 1..Len(items) |-> primaryTag(items[j])])
          IN [g \in 1..Len(subGroups) |->
                aggregateByTag(SelectSeq(items, LAMBDA i : primaryTag(i) = subGroups[g]),
                               TopTagsOfGroup)]]

\* buildPrompt called on its own; threw tells whether it raised.
BuildPrompt ==
    /\ op = "init"
    /\ op' = "buildPrompt"
    /\ LET threw == buildPromptRaises(mock.signals)
       IN ret' = [signals |-> mock.signals, hotTopics |-> mock.hotTopics,
                  llmKnowledge |-> mock.llmKnowledge,
                  threw |-> threw,
                  prompt |-> IF threw THEN <<>>
                             ELSE buildPrompt(mock.signals, mock.hotTopics,
                                              mock.llmKnowledge),
                  aggregates |-> IF threw THEN <<>>
                                 ELSE groupAggregates(mock.signals)]
    /\ UNCHANGED <<clock, raw_signals, insights, runs, mock, calls>>

\* buildConvergence called on an insight whose sources are those of the
\* signals.
BuildConvergence ==
    /\ op = "init"
    /\ mock.signals # <<>>
    /\ op' = "buildConvergence"
    /\ LET sources == [k \in 1..Len(mock.signals) |-> mock.signals[k].source]
       IN ret' = [sources |-> sources,
                  convergence |-> buildConvergence([sources |-> sources])]
    /\ UNCHANGED <<clock, raw_signals, insights, runs, mock, calls>>

NextPrompt == BuildPrompt \/ BuildConvergence

SpecPrompt == InitPrompt /\ [][NextPrompt]_vars

(***************************************************************************)
(* The scrape command followed by analysis runs                            *)
(***************************************************************************)
\* updateSignalVelocity(tag, velocity, since): .update({velocity})
\* .contains('tags', [tag]).gte('scraped_at', since).select('id')
updateSignalVelocity(table, tag, velocity, since, fails) ==
    LET hit == {r \in table :
                  /\ \E k \in 1..Len(r.tags) : r.tags[k] = tag
                  /\ r.scraped_at >= since}
    IN IF fails
       THEN [table |-> table, updated |-> 0, error |-> TRUE]
       ELSE [table |-> (table \ hit) \cup {[r EXCEPT !.velocity = <<velocity>>] : r \in hit},
             updated |-> Cardinality(hit), error |-> FALSE]

RECURSIVE updateVelocities(_, _, _, _, _)
\* for (const score of velocityScores) { updateSignalVelocity(...) } (cli.ts:140-147)
updateVelocities(table, scores, since, failing, acc) ==
    IF scores = <<>>
    THEN [table |-> table, updated |-> acc.updated, errors |-> acc.errors]
    ELSE LET sc == Head(scores)
             out == updateSignalVelocity(table, sc.topic, sc.velocity, since,
                                         sc.topic \in failing)
         IN updateVelocities(out.table, Tail(scores), since, failing,
                [updated |-> acc.updated + out.updated,
                 errors |-> IF out.error
                            THEN Append(acc.errors, <<"Velocity update", sc.topic>>)
                            ELSE acc.errors])

\* What one scraper hands back: its signals and its errors.
ScraperResults ==
    { [signals |-> <<>>, errors |-> <<>>],
      [signals |-> <<>>, errors |-> <<"scraper failed">>],
      [signals |-> <<Signal("techmeme", "c", "t1", <<"ai", "ml">>)>>, errors |-> <<>>] }

\* The scrape command (cli.ts:24-155) with one scraper result: upsert, then
\* computeVelocity() and the velocity updates, then the exit decision.  The
\* call of computeVelocity is not inside a try: when it throws, the action's
\* promise rejects, nothing after the call runs and node exits with code 1.
ScrapeCommand ==
    \E result \in ScraperResults :
      \E failed \in SUBSET ChunkStarts(Len(result.signals)),
         now \in clock..Min(clock + 1, MaxMs),
         currentFails, previousFails \in BOOLEAN :
        LET start == clock
            up == upsertSignals(raw_signals, result.signals, start, failed)
            totalSignals == Len(result.signals)
            scrapeErrors == result.errors \o up.errors
        IN \E vel \in computeVelocity(up.table, DefaultWindowHours, now,
                                      currentFails, previousFails) :
           \E failing \in SUBSET {vel.scores[k].topic : k \in 1..Len(vel.scores)} :
             LET upd == updateVelocities(up.table, vel.scores, start, failing,
                                         [updated |-> 0, errors |-> <<>>])
                 allErrors == scrapeErrors \o upd.errors
                 velocity == [called |-> TRUE, currentFails |-> currentFails,
                              previousFails |-> previousFails,
                              threw |-> vel.threw, scores |-> vel.scores]
             IN /\ op' = "scrape"
                /\ clock' = now
                /\ UNCHANGED <<insights, runs, mock, calls>>
                /\ IF vel.threw
                   THEN /\ raw_signals' = up.table
                        /\ ret' = [totalSignals |-> totalSignals,
                                   totalInserted |-> up.inserted,
                                   allErrors |-> scrapeErrors,
                                   velocity |-> velocity,
                                   totalVelocityUpdates |-> 0,
                                   completed |-> FALSE, exitCode |-> 1]
                   ELSE /\ raw_signals' = upd.table
                        /\ ret' = [totalSignals |-> totalSignals,
                                   totalInserted |-> up.inserted,
                                   allErrors |-> allErrors,
                                   velocity |-> velocity,
                                   totalVelocityUpdates |-> upd.updated,
                                   completed |-> TRUE,
                                   exitCode |-> IF totalSignals = 0 /\ allErrors # <<>>
                                                THEN 1 ELSE 0]

\* The rows earlier scrapes left in table raw_signals: none, or two signals
\* on topic ai stored five hours ago.
EarlierSignals ==
    { {},
      { stampSignal(Signal("techmeme", "p", "t0", <<"ai">>), 0 - 5 * HourMs),
        stampSignal(Signal("techmeme", "q", "t0", <<"ai">>), 0 - 5 * HourMs) } }

InitPipeline ==
    /\ clock = 0
    /\ raw_signals \in EarlierSignals
    /\ insights = {}
    /\ op = "init"
    /\ ret = [none |-> TRUE]
    /\ runs = 0
    /\ calls = NoCalls
    /\ mock = NoMock

\* What the subprocess does in a run after a scrape: it fails to spawn, or
\* closes cleanly with an array of the first element.
PipelineOutcomes ==
    {o \in Outcomes :
        \/ ~o.spawned
        \/ o.code = "0" /\ o.stdout.kind = "array" /\ o.stdout.items = <<ItemSeq[1]>>}

\* A run after a scrape: each window query answers or fails, the knowledge
\* step gives its text or nothing.
RunAnalysisAfterScrape ==
    runAnalysis(BOOLEAN \X BOOLEAN, LLMKnowledge, PipelineOutcomes)

NextPipeline == ScrapeCommand \/ RunAnalysisAfterScrape

SpecPipeline == InitPipeline /\ [][NextPipeline]_vars

(***************************************************************************)
(* Concurrent upsertSignals calls                                          *)
(*                                                                         *)
(* Two scrape commands run as separate processes, each in an upsertSignals *)
(* call for a source of its own.  A call stamps its rows, then awaits one  *)
(* upsert per chunk; between two awaits the other call may take a step.    *)
(***************************************************************************)
MaxChunks == 2

Writers == {1, 2}

WriterSource(w) == IF w = 1 THEN "arxiv" ELSE "moltbook"

\* The batch of a writer: source ids 1, 2, ... fill every chunk but the last,
\* whose one signal repeats source id 1 under another title.
WriterBatch(w) ==
    [k \in 1..((MaxChunks - 1) * ChunkSize + 1) |->
        IF k <= (MaxChunks - 1) * ChunkSize
        THEN Signal(WriterSource(w), k, "t1", <<"ai">>)
        ELSE Signal(WriterSource(w), 1, "t2", <<"ai">>)]

\* Mutant: the loop ends at the first chunk the store refuses.
upsertOneChunkStopping(table, rows, i, fails) ==
    LET chunk == SubSeq(rows, i + 1, Min(i + ChunkSize, Len(rows)))
        after == dbUpsert(table, chunk)
    IN IF fails
       THEN [table |-> table, inserted |-> 0, errors |-> << <<"Upsert chunk", i>> >>,
             next |-> Len(rows)]
       ELSE [table |-> after, inserted |-> Cardinality(after) - Cardinality(table),
             errors |-> <<>>, next |-> i + ChunkSize]

\* One iteration of the loop of upsertSignals (supabase.ts:32-43): the upsert
\* of rows.slice(i, i + 100), then errors.push or inserted += count.
upsertOneChunk(table, rows, i, fails) ==
    LET chunk == SubSeq(rows, i + 1, Min(i + ChunkSize, Len(rows)))
        after == dbUpsert(table, chunk)
    IN IF fails
       THEN [table |-> table, inserted |-> 0, errors |-> << <<"Upsert chunk", i>> >>,
             next |-> i + ChunkSize]
       ELSE [table |-> after, inserted |-> Cardinality(after) - Cardinality(table),
             errors |-> <<>>, next |-> i + ChunkSize]

Idle == [state |-> "idle"]

\* A writer enters upsertSignals: rows = signals.map(...) stamped with the
\* clock, i = 0.
StartUpsert(w) ==
    /\ calls[w].state = "idle"
    /\ calls' = [calls EXCEPT ![w] =
                    [state |-> "loop",
                     rows |-> [k \in 1..Len(WriterBatch(w)) |->
                                 stampSignal(WriterBatch(w)[k], clock)],
                     i |-> 0, failed |-> {}, inserted |-> 0, errors |-> <<>>]]
    /\ op' = "upsertSignals:start"
    /\ ret' = [writer |-> w]
    /\ UNCHANGED <<clock, raw_signals, insights, runs, mock>>

\* The next chunk of a writer is upserted, or refused by the store.
UpsertChunk(w) ==
    /\ calls[w].state = "loop"
    /\ calls[w].i < Len(calls[w].rows)
    /\ \E fails \in BOOLEAN :
         LET c == calls[w]
             out == upsertOneChunk(raw_signals, c.rows, c.i, fails)
         IN /\ raw_signals' = out.table
            /\ calls' = [calls EXCEPT ![w] =
                            [c EXCEPT !.i = out.next,
                                      !.failed = IF fails THEN @ \cup {c.i} ELSE @,
                                      !.inserted = @ + out.inserted,
                                      !.errors = @ \o out.errors]]
            /\ op' = "upsertSignals:chunk"
            /\ ret' = [writer |-> w, i |-> c.i, fails |-> fails]
    /\ UNCHANGED <<clock, insights, runs, mock>>

\* The loop of a writer is over: return {inserted, errors}.
ReturnUpsert(w) ==
    /\ calls[w].state = "loop"
    /\ calls[w].i >= Len(calls[w].rows)
    /\ calls' = [calls EXCEPT ![w] = [@ EXCEPT !.state = "returned"]]
    /\ op' = "upsertSignals"
    /\ ret' = [writer |-> w, inserted |-> calls[w].inserted, errors |-> calls[w].errors]
    /\ UNCHANGED <<clock, raw_signals, insights, runs, mock>>

\* The rows earlier scrapes left: none, or the first signal of writer 1
\* under an older title, stored an hour ago.
EarlierWriterRows ==
    { {}, {stampSignal(Signal(WriterSource(1), 1, "t0", <<"ai">>), 0 - HourMs)} }

InitWriters ==
    /\ clock = 0
    /\ raw_signals \in EarlierWriterRows
    /\ insights = {}
    /\ op = "init"
    /\ ret = [none |-> TRUE]
    /\ runs = 0
    /\ calls = [w \in Writers |-> Idle]
    /\ mock = NoMock

NextWriters ==
    \E w \in Writers : StartUpsert(w) \/ UpsertChunk(w) \/ ReturnUpsert(w)

SpecWriters == InitWriters /\ [][NextWriters]_vars

(***************************************************************************)
(* Properties of the signal store                                          *)
(***************************************************************************)
\* The per-tag counts getTagCounts yields for the rows of a window.
windowCounts(table, since, until) ==
    getTagCounts(CHOOSE data \in Orderings(dbSelectWindow(table, since, until)) : TRUE).n

Instants == {k * HourMs : k \in 0..MaxTicks}

\* C1: upsertSignals is a no-op on key conflict.  Every upsertSignals step
\* keeps each stored row as it was, leaves at most one row per
\* (source, source_id), and reports exactly one error per chunk the store
\* failed on (a conflict adds none); and upserting again the batch the
\* previous, error-free upsertSignals was given leaves the table, and so the
\* per-tag counts of every window, as they were.
C1_UpsertNoOpOnConflict ==
    [][ op' = "upsertSignals" =>
          /\ \A r \in raw_signals : r \in raw_signals'
          /\ \A r, s \in raw_signals' : SameKey(r, s) => r = s
          /\ Len(ret'.errors) = Cardinality(ret'.failed)
          /\ (op = "upsertSignals" /\ ret.errors = <<>> /\ ret'.errors = <<>>
                /\ ret'.batch = ret.batch)
             => /\ raw_signals' = raw_signals
                /\ \A since, until \in Instants :
                     windowCounts(raw_signals', since, until)
                       = windowCounts(raw_signals, since, until)
      ]_vars

\* C1 witness: an upsert, at a later time, of a signal whose key is stored with
\* another title: nothing inserted, no error, the stored row still there.
C1_Witness ==
    /\ op = "upsertSignals"
    /\ ret.errors = <<>>
    /\ ret.inserted = 0
    /\ \E k \in 1..Len(ret.batch) : \E r \in raw_signals :
         /\ SameKey(r, ret.batch[k])
         /\ r.title # ret.batch[k].title
         /\ r.scraped_at < clock

(***************************************************************************)
(* Properties of the velocity engine                                       *)
(***************************************************************************)
Abs(x) == IF x < 0 THEN -x ELSE x

ScoreSet == {ret.scores[i] : i \in 1..Len(ret.scores)}

\* C7: velocity formula.  For every score returned, the velocity is exactly
\* 100 when previous = 0 and current > 0, and otherwise it is a multiple of
\* 0.1 nearest to (current - previous) / previous * 100 (velocity is in
\* tenths; the distance to the exact quotient is at most half a tenth);
\* 5 -> 10 gives 100, 1 -> 3 gives 200, 2 -> 1 gives -50.
C7_VelocityFormula ==
    op = "computeVelocity" =>
      \A s \in ScoreSet :
        LET c == s.current_count
            p == s.previous_count
        IN /\ (p = 0 /\ c > 0) => s.velocity = 1000
           /\ p > 0 => 2 * Abs(s.velocity * p - (c - p) * 1000) <= p
           /\ (p = 5 /\ c = 10) => s.velocity = 1000
           /\ (p = 1 /\ c = 3) => s.velocity = 2000
           /\ (p = 2 /\ c = 1) => s.velocity = -500

\* C7 witness: a score whose quotient needs rounding (3 -> 4 is 33.33..%).
C7_Witness ==
    /\ op = "computeVelocity"
    /\ \E s \in ScoreSet :
         s.previous_count = 3 /\ s.current_count = 4 /\ s.velocity = 333

\* C8 (as claimed): is_hot holds exactly when the reported, rounded velocity
\* of the same score is greater than 50.
C8_HotIffReportedVelocityAbove50 ==
    op = "computeVelocity" =>
      \A s \in ScoreSet : s.is_hot <=> s.velocity > HotThreshold * 10

\* C9: the two windows are [now - w, now) and [now - 2w, now - w).  Of the
\* stored signals, those with scraped_at in [now - 2w, now) are in exactly one
\* of the two query results, one with scraped_at = now - w is in the current
\* result only, and the others are in neither.
C9_AdjacentHalfOpenWindows ==
    (op = "computeVelocity" /\ ~ret.threw) =>
      LET w == ret.windowHours * HourMs
          now == ret.now
      IN \A r \in raw_signals :
           LET inCur == r \in ret.current
               inPrev == r \in ret.previous
           IN /\ inCur <=> (now - w <= r.scraped_at /\ r.scraped_at < now)
              /\ inPrev <=> (now - 2 * w <= r.scraped_at /\ r.scraped_at < now - w)
              /\ ~(inCur /\ inPrev)
              /\ r.scraped_at = now - w => (inCur /\ ~inPrev)

\* C9 witness: a signal exactly at now - w counted in the current window and
\* not in the previous one, while the previous window holds another signal.
C9_Witness ==
    /\ op = "computeVelocity"
    /\ ~ret.threw
    /\ \E r \in ret.current :
         /\ r.scraped_at = ret.now - ret.windowHours * HourMs
         /\ r \notin ret.previous
    /\ ret.previous # {}

\* The signals of a query result that carry a tag normalising to the topic.
carriers(rows, topic) ==
    {r \in rows : \E k \in 1..Len(r.tags) : toLowerCase(r.tags[k]) = topic}

\* C10 (as claimed): a topic's count for a window is the number of signals of
\* the window that carry a tag whose lower-cased form is the topic.
C10_CountIsNumberOfSignals ==
    (op = "computeVelocity" /\ ~ret.threw) =>
      \A s \in ScoreSet :
        /\ s.current_count = Cardinality(carriers(ret.current, s.topic))
        /\ s.previous_count = Cardinality(carriers(ret.previous, s.topic))

(***************************************************************************)
(* Properties of the analysis run, the insight store and the feed          *)
(***************************************************************************)
RunOps == {"runAnalysis", "runResearch"}

FeedOps == {"publish", "generateJsonFeed"}

\* The rows of table insights that one run inserted.
RunRows(table, run) == {r \in table : r.id[1] = run}

\* The floor a p0 is to meet: a convergence block of 3+ sources in 3+ tiers.
floorMet(convergence) ==
    /\ convergence # <<>>
    /\ convergence[1].source_count >= 3
    /\ Cardinality(DOMAIN convergence[1].trust_tiers) >= 3

\* C2 (as claimed): priority floor.  Every persisted insight and every feed
\* item with priority p0 has a recomputed convergence of at least 3 sources
\* in at least 3 distinct trust tiers.
C2_PriorityFloor ==
    /\ \A r \in insights : r.priority = "p0" => floorMet(buildConvergence(r))
    /\ op \in FeedOps =>
         \A k \in 1..Len(ret.feed) :
           ret.feed[k].deeptrend.priority = "p0"
             => floorMet(ret.feed[k].deeptrend.convergence)

\* C3: run persistence is all-or-none.  Rows are added to table insights only
\* by a run, stored rows stay, and the rows a run adds are either none or one
\* row for every insight the run validated.
C3_RunPersistenceAllOrNone ==
    [][ /\ insights \subseteq insights'
        /\ runs' = runs => insights' = insights
        /\ runs' = runs + 1 =>
             LET new == insights' \ insights
             IN /\ \A r \in new : r.id[1] = runs'
                /\ \/ new = {}
                   \/ /\ {r.id[2] : r \in new} = 1..Len(ret'.validated)
                      /\ \A r \in new : r.topic = ret'.validated[r.id[2]].topic
      ]_vars

\* C3 witness: a run validated two insights, the store accepts the first and
\* rejects the second, and no row of the run is stored.
C3_Witness ==
    /\ op = "runAnalysis"
    /\ ret.insertCalled
    /\ Len(ret.validated) = 2
    /\ ret.validated[1].confidence <= 10
    /\ ret.validated[2].confidence > 10
    /\ RunRows(insights, runs) = {}
    /\ ret.errors # <<>>

\* C4 (as claimed): all rows one run persisted carry one analyzed_at, and the
\* publish query returns every row of the latest run.
C4_UniformRunTimestamp ==
    /\ \A r, q \in insights : r.id[1] = q.id[1] => r.analyzed_at = q.analyzed_at
    /\ op = "publish" =>
         RunRows(insights, SetMax({r.id[1] : r \in insights})) \subseteq ret.rows

FailureKinds == {"spawn-error", "timeout", "exit-nonzero", "no-array", "unparsable-array"}

\* C5: a synthesis failure is recoverable and leaves the store untouched.  A
\* run whose subprocess times out, exits non-zero, fails to spawn or prints no
\* parsable array returns no insight and at least one error, does not call
\* insertInsights, and leaves table insights as it was.
C5_SynthesisFailureLeavesStore ==
    [][ (runs' = runs + 1 /\ ret'.synthesis \in FailureKinds) =>
          /\ ret'.insights = <<>>
          /\ ret'.errors # <<>>
          /\ ~ret'.insertCalled
          /\ insights' = insights
      ]_vars

\* C5 witness: an analysis run timed out while insights of an earlier run are
\* stored.
C5_Witness ==
    /\ op = "runAnalysis"
    /\ ret.synthesis = "timeout"
    /\ ret.insights = <<>>
    /\ ret.errors # <<>>
    /\ insights # {}

\* C6: the convergence block depends on insight.sources and the trust table
\* alone.  Two items of one feed whose insights have the same sources carry
\* the same convergence block, whatever priority and convergence_tiers the
\* synthesis step asserted.
C6_ConvergenceFromSourcesOnly ==
    op \in FeedOps =>
      \A j, k \in 1..Len(ret.feed) :
        ret.input[j].sources = ret.input[k].sources
          => ret.feed[j].deeptrend.convergence = ret.feed[k].deeptrend.convergence

\* C6 witness: a feed of two insights with the same sources, different
\* priorities and different asserted tiers, and the same convergence block.
C6_Witness ==
    /\ op = "generateJsonFeed"
    /\ \E j, k \in 1..Len(ret.feed) :
         /\ ret.input[j].sources = ret.input[k].sources
         /\ ret.input[j].sources # <<>>
         /\ ret.input[j].priority # ret.input[k].priority
         /\ ret.input[j].convergence_tiers # ret.input[k].convergence_tiers
         /\ ret.feed[j].deeptrend.convergence # <<>>
         /\ ret.feed[j].deeptrend.convergence = ret.feed[k].deeptrend.convergence

(***************************************************************************)
(* Properties of the velocity list                                         *)
(***************************************************************************)
\* C11: the list computeVelocity returns is ordered by non-increasing
\* velocity, and no score of it has a zero count in both windows.
C11_SortedNoZeroTopics ==
    (op = "computeVelocity" /\ ~ret.threw) =>
        /\ \A k \in 1..(Len(ret.scores) - 1) :
              ret.scores[k].velocity >= ret.scores[k + 1].velocity
        /\ \A k \in 1..Len(ret.scores) :
              ~(ret.scores[k].current_count = 0 /\ ret.scores[k].previous_count = 0)

\* C11 witness: topic ml, met after topic ai, is listed before it with the
\* greater velocity: the sort moved it.
C11_Witness ==
    /\ op = "computeVelocity"
    /\ ~ret.threw
    /\ Len(ret.scores) = 2
    /\ ret.scores[1].topic = "ml"
    /\ ret.scores[2].topic = "ai"
    /\ ret.scores[1].velocity > ret.scores[2].velocity

(***************************************************************************)
(* Properties of the callers of computeVelocity                            *)
(***************************************************************************)
\* C12 (as claimed): when the query of either window fails, computeVelocity
\* yields no scores, and each caller records the failure and goes on: the
\* analysis run reaches synthesis with a prompt that has no hot-topics
\* section, the scrape command runs to its end.
C12_VelocityFailureNonFatal ==
    /\ (op \in {"runAnalysis", "scrape"} /\ ret.velocity.called
           /\ (ret.velocity.currentFails \/ ret.velocity.previousFails)) =>
          (ret.velocity.threw /\ ret.velocity.scores = <<>>)
    /\ (op = "runAnalysis" /\ ret.velocity.threw) =>
          /\ \E k \in 1..Len(ret.errors) :
                ret.errors[k] = "Velocity computation failed (non-fatal)"
          /\ ret.synthesis # "skipped"
          /\ \A k \in 1..Len(ret.prompt) : ret.prompt[k].section # "hot-topics"
    /\ (op = "scrape" /\ ret.velocity.threw) =>
          /\ ret.completed
          /\ ret.allErrors # <<>>

(***************************************************************************)
(* Properties of the prompt compiler                                       *)
(***************************************************************************)
\* The phrases of the prompt templates that speak of the anti-noise filter.
AntiNoiseLanguage == {"THE ANTI-NOISE FILTER", "apply the anti-noise filter FIRST"}

\* C13 (as claimed): a prompt buildPrompt returns for signals whose sources
\* all resolve to the raw tier holds no anti-noise filter language, and one it
\* returns for a batch with a source of another tier holds it.
C13_ModeSwitch ==
    (op = "buildPrompt" /\ ~ret.threw) =>
        LET allRaw == \A k \in 1..Len(ret.signals) :
                          promptTierOf(ret.signals[k].source) = "raw"
            antiNoise == \E p \in AntiNoiseLanguage : promptContains(ret.prompt, p)
        IN antiNoise <=> ~allRaw

\* C13 (amended): the counsel template, with its section that defines the
\* anti-noise filter, is in the prompt exactly when some source of the batch
\* resolves to a tier other than raw, and the generic-analyst template
\* exactly when none does; the closing instruction to apply the anti-noise
\* filter is in every prompt.
C13_ModeSwitchAmended ==
    (op = "buildPrompt" /\ ~ret.threw) =>
        LET allRaw == \A k \in 1..Len(ret.signals) :
                          promptTierOf(ret.signals[k].source) = "raw"
        IN /\ promptContains(ret.prompt, "THE ANTI-NOISE FILTER") <=> ~allRaw
           /\ promptContains(ret.prompt, "LLM Counsel") <=> ~allRaw
           /\ promptContains(ret.prompt, "trend intelligence analyst") <=> allRaw
           /\ promptContains(ret.prompt, "apply the anti-noise filter FIRST")

\* C13 witness: a prompt compiled from a reddit signal and a signal of a
\* source no table knows: generic-analyst template, closing instruction.
C13_Witness ==
    /\ op = "buildPrompt"
    /\ Len(ret.signals) = 2
    /\ ret.signals[1].source = "reddit"
    /\ ret.signals[2].source = "unknown-blog"
    /\ promptContains(ret.prompt, "trend intelligence analyst")
    /\ ~promptContains(ret.prompt, "THE ANTI-NOISE FILTER")
    /\ promptContains(ret.prompt, "apply the anti-noise filter FIRST")

\* C14: the prompt runAnalysis sends to synthesis has a hot-topics section
\* exactly when the velocity step of the run returned a score with is_hot
\* true, and every line of the section is the line of a hot score.
C14_HotTopicsSectionIffHot ==
    (op = "runAnalysis" /\ ret.synthesis # "skipped") =>
        LET scores == ret.velocity.scores
            hasHot == /\ ~ret.velocity.threw
                      /\ \E j \in 1..Len(scores) : scores[j].is_hot
            lines == {k \in 1..Len(ret.prompt) : ret.prompt[k].section = "hot-line"}
        IN /\ (\E k \in 1..Len(ret.prompt) : ret.prompt[k].section = "hot-topics")
                <=> hasHot
           /\ hasHot => lines # {}
           /\ \A k \in lines :
                \E j \in 1..Len(scores) :
                    /\ scores[j].is_hot
                    /\ scores[j].topic = ret.prompt[k].topic
                    /\ scores[j].velocity = ret.prompt[k].velocity

\* C14 witness: the velocity step returned a hot score and one that is not
\* hot, and the prompt lists the hot one alone.
C14_Witness ==
    /\ op = "runAnalysis"
    /\ ret.synthesis # "skipped"
    /\ \E j \in 1..Len(ret.velocity.scores) : ret.velocity.scores[j].is_hot
    /\ \E j \in 1..Len(ret.velocity.scores) : ~ret.velocity.scores[j].is_hot
    /\ Cardinality({k \in 1..Len(ret.prompt) : ret.prompt[k].section = "hot-line"}) = 1

(***************************************************************************)
(* Properties of parseInsightsResponse                                     *)
(***************************************************************************)
\* The end positions j for which the output, from its first opening bracket
\* to j, is the text of a JSON array: the first top-level bracketed array.
firstArrayEnds(output) ==
    LET opens == {i \in 1..Len(output) : output[i] = Open}
    IN IF opens = {} THEN {}
       ELSE {j \in (SetMin(opens) + 1)..Len(output) :
               JSONparse(SubSeq(output, SetMin(opens), j)).ok}

\* C15 (as claimed): when the output is prefix + A + suffix, A the text of a
\* JSON array and no opening bracket in prefix, parseInsightsResponse gives
\* what it gives for A alone, whatever the suffix holds; when the output has
\* no opening bracket with a closing one behind it, it throws the format
\* error.
C15_FirstArrayExtracted ==
    op = "parseInsightsResponse" =>
        LET output == ret.output
            opens == {i \in 1..Len(output) : output[i] = Open}
        IN /\ \A j \in firstArrayEnds(output) :
                LET A == SubSeq(output, SetMin(opens), j)
                    alone == parseInsightsResponse(
                                 [kind |-> "array", items |-> JSONparse(A).value])
                IN ret.threw = alone.threw /\ ret.insights = alone.insights
           /\ (~\E i, j \in 1..Len(output) :
                    i < j /\ output[i] = Open /\ output[j] = Close)
                => (ret.threw
                    /\ ret.message = "No JSON array found in Claude response")

\* C16 (as claimed): whenever the extracted text parses as a JSON array of n
\* elements, parseInsightsResponse does not throw and returns n insights,
\* the k-th made of the k-th element.
C16_OnlyArrayLevelFailures ==
    op = "parseInsightsResponse" =>
        LET stdout == readStdout(ret.output)
        IN stdout.kind = "array" =>
             /\ ~ret.threw
             /\ Len(ret.insights) = Len(stdout.items)
             /\ \A k \in 1..Len(stdout.items) :
                  (isObject(stdout.items[k]) /\ stdout.items[k].topic # <<>>)
                    => ret.insights[k].topic = stdout.items[k].topic[1]

\* The fields of an element as the callback of parsed.map reads them: those
\* of a number or a string are all missing.
fieldsOf(item) ==
    IF isObject(item) THEN item ELSE Item(<<>>, <<>>, <<>>, <<>>, <<>>, <<>>)

\* C17 (as claimed): a missing confidence yields 0, a missing priority p2, a
\* missing sources an empty list and a missing convergence_tiers an empty
\* collection.
C17_ValidatorDefaults ==
    (op = "parseInsightsResponse" /\ ~ret.threw) =>
        LET items == readStdout(ret.output).items
        IN \A k \in 1..Len(items) :
             /\ fieldsOf(items[k]).confidence = <<>> => ret.insights[k].confidence = 0
             /\ fieldsOf(items[k]).priority = <<>> => ret.insights[k].priority = "p2"
             /\ fieldsOf(items[k]).sources = <<>> => ret.insights[k].sources = <<>>
             /\ fieldsOf(items[k]).convergence_tiers = <<>>
                  => ret.insights[k].convergence_tiers = << <<>> >>

\* C17 (amended): as claimed for confidence, priority and sources; a missing
\* convergence_tiers leaves the insight without convergence_tiers
\* (undefined).
C17_ValidatorDefaultsAmended ==
    (op = "parseInsightsResponse" /\ ~ret.threw) =>
        LET items == readStdout(ret.output).items
        IN \A k \in 1..Len(items) :
             /\ fieldsOf(items[k]).confidence = <<>> => ret.insights[k].confidence = 0
             /\ fieldsOf(items[k]).priority = <<>> => ret.insights[k].priority = "p2"
             /\ fieldsOf(items[k]).sources = <<>> => ret.insights[k].sources = <<>>
             /\ fieldsOf(items[k]).convergence_tiers = <<>>
                  => ret.insights[k].convergence_tiers = <<>>

\* C17 witness: prose, then an array of one object without any field; the
\* insight holds the defaults.
C17_Witness ==
    /\ op = "parseInsightsResponse"
    /\ ~ret.threw
    /\ Len(ret.output) = 4
    /\ ret.output[1] = Prose
    /\ Len(ret.insights) = 1
    /\ ret.insights[1] = [insight_type |-> "undefined", topic |-> "", sources |-> <<>>,
                          confidence |-> 0, priority |-> "p2",
                          convergence_tiers |-> <<>>]
    /\ readStdout(ret.output).items[1] = Item(<<>>, <<>>, <<>>, <<>>, <<>>, <<>>)

(***************************************************************************)
(* Properties of the validated insights and of the rows sent to the store  *)
(***************************************************************************)
PRIORITIES == {"p0", "p1", "p2"}

\* C18 (as claimed): every insight a run validated and handed to
\* insertInsights, and every item of a feed, has confidence within [0, 1]
\* (0..10 tenths) and priority p0, p1 or p2.
C18_ConfidenceAndPriorityInRange ==
    /\ op \in RunOps =>
          \A k \in 1..Len(ret.validated) :
              /\ ret.validated[k].confidence >= 0
              /\ ret.validated[k].confidence <= 10
              /\ ret.validated[k].priority \in PRIORITIES
    /\ op \in FeedOps =>
          \A k \in 1..Len(ret.feed) :
              /\ ret.feed[k].deeptrend.confidence >= 0
              /\ ret.feed[k].deeptrend.confidence <= 10
              /\ ret.feed[k].deeptrend.priority \in PRIORITIES

\* C19 (as claimed): every stored row has a supported insight_type, and a run
\* that handed insertInsights an insight of another kind recorded the
\* remapping, in the errors it returns or on the console.
C19_RemapRecorded ==
    /\ \A r \in insights : r.insight_type \in VALID_TYPES
    /\ (op \in RunOps /\ ret.insertCalled) =>
          \A k \in 1..Len(ret.validated) :
              ret.validated[k].insight_type \notin VALID_TYPES =>
                  \/ \E e \in 1..Len(ret.errors) : ret.errors[e] = "Remapped insight_type"
                  \/ \E l \in 1..Len(ret.log) : ret.log[l].line = "Remapped insight_type"

(***************************************************************************)
(* Properties of the trust tables                                          *)
(***************************************************************************)
\* C20: the prompt compiler and the publisher give every source the same
\* trust tier: for each legacy source, curated feed source and unknown
\* source the two tables resolve alike, and the tier a prompt prints for a
\* source is the one tier of the convergence block the publisher builds for
\* an insight of that source.
C20_SameTierInEveryComponent ==
    /\ \A src \in LegacySources \cup {f.source : f \in CURATED_FEEDS} \cup PromptSources :
          promptTierOf(src) = tierOf(src)
    /\ op = "buildPrompt" =>
          \A k \in 1..Len(ret.prompt) :
              ret.prompt[k].section = "source" =>
                  DOMAIN buildConvergence([sources |-> <<ret.prompt[k].source>>])[1].trust_tiers
                    = {ret.prompt[k].trust}

\* C20 witness: a prompt compiled from a techmeme signal and a signal of an
\* unknown source, printed as editor and raw.
C20_Witness ==
    /\ op = "buildPrompt"
    /\ \E k \in 1..Len(ret.prompt) :
          /\ ret.prompt[k].section = "source"
          /\ ret.prompt[k].source = "techmeme"
          /\ ret.prompt[k].trust = "editor"
    /\ \E k \in 1..Len(ret.prompt) :
          /\ ret.prompt[k].section = "source"
          /\ ret.prompt[k].source = "unknown-blog"
          /\ ret.prompt[k].trust = "raw"

\* The sources the static configuration names.
ConfiguredSources == LegacySources \cup {f.source : f \in CURATED_FEEDS}

\* C21: buildPrompt and buildConvergence never raise on a source the static
\* configuration does not name: buildPrompt prints it under its own
\* identifier with tier raw, a batch of such sources alone gets the
\* generic-analyst template, and buildConvergence counts every such source
\* in tier raw.
C21_TrustLookupTotal ==
    /\ (op = "buildPrompt"
          /\ \A k \in 1..Len(ret.signals) :
                /\ "tags" \in DOMAIN ret.signals[k]
                /\ ret.signals[k].tags = <<"ai">>) =>
          /\ ~ret.threw
          /\ \A k \in 1..Len(ret.prompt) :
                (ret.prompt[k].section = "source"
                   /\ ret.prompt[k].source \notin ConfiguredSources) =>
                    /\ ret.prompt[k].trust = "raw"
                    /\ ret.prompt[k].name = ret.prompt[k].source
          /\ (\A k \in 1..Len(ret.signals) :
                 ret.signals[k].source \notin ConfiguredSources) =>
                ~promptContains(ret.prompt, "LLM Counsel")
    /\ op = "buildConvergence" =>
          /\ ret.convergence # <<>>
          /\ LET unknown == {k \in 1..Len(ret.sources) :
                                ret.sources[k] \notin ConfiguredSources}
                 tiers == ret.convergence[1].trust_tiers
             IN unknown # {} =>
                  /\ "raw" \in DOMAIN tiers
                  /\ tiers["raw"] >= Cardinality(unknown)

\* C26: buildPrompt never raises, whatever the signals: a signal whose tags
\* are missing or empty is counted in the sub-group general of its source,
\* and a signal without a score enters the average score of its tags as 0.
C26_BuildPromptTotal ==
    op = "buildPrompt" =>
        /\ ~ret.threw
        /\ \A k \in 1..Len(ret.signals) :
              ("tags" \notin DOMAIN ret.signals[k] \/ ret.signals[k].tags = <<>>) =>
                  \E b \in 1..Len(ret.prompt) :
                      /\ ret.prompt[b].section = "source"
                      /\ ret.prompt[b].source = ret.signals[k].source
                      /\ \E l \in 1..Len(ret.prompt[b].lines) :
                            ret.prompt[b].lines[l].group = "general"
        /\ \A i \in 1..Len(ret.aggregates) :
              \A g \in 1..Len(ret.aggregates[i]) :
                  \A t \in 1..Len(ret.aggregates[i][g]) :
                      ret.aggregates[i][g][t].avgScore # <<>>

(***************************************************************************)
(* Properties of what a run reports                                        *)
(***************************************************************************)
\* C28: the insights a run returns are the insights it stored: when the
\* returned list is not empty, table insights holds one row of this run for
\* each of its elements, and when insertInsights reported a store error the
\* returned list is empty.
C28_ReportedAreStored ==
    op \in RunOps =>
        /\ ret.insights # <<>> =>
              \A k \in 1..Len(ret.insights) :
                  \E r \in RunRows(insights, runs) :
                      /\ r.id[2] = k
                      /\ r.topic = ret.insights[k].topic
        /\ (\E e \in 1..Len(ret.errors) : ret.errors[e] = "Insert insights") =>
              ret.insights = <<>>

(***************************************************************************)
(* Properties of concurrent upsertSignals calls                            *)
(***************************************************************************)
\* The chunks of a call's rows the store did not refuse.
acceptedRows(c) ==
    {c.rows[k] : k \in {j \in 1..Len(c.rows) :
                          j <= c.i /\ ((j - 1) \div ChunkSize) * ChunkSize \notin c.failed}}

\* The keys of the rows of a table.
storedKeys(table) == {<<r.source, r.source_id>> : r \in table}

\* The keys a call offered.
keysOf(rows) == {<<rows[k].source, rows[k].source_id>> : k \in 1..Len(rows)}

\* C22: under every interleaving of the chunk upserts of two upsertSignals
\* calls for different sources, the table has at most one row per
\* (source, source_id), a stored row is never removed or changed by a later
\* chunk, and once both calls have returned without a refused chunk the
\* table holds exactly one row for each key either call offered.
C22_ConcurrentWritersSafe ==
    [][ /\ raw_signals \subseteq raw_signals'
        /\ Cardinality(storedKeys(raw_signals')) = Cardinality(raw_signals')
        /\ (\A w \in Writers : calls'[w].state = "returned" /\ calls'[w].failed = {}) =>
              \A w \in Writers : keysOf(calls'[w].rows) \subseteq storedKeys(raw_signals')
      ]_vars

\* C22 witness: writer 2 has returned with every chunk stored while writer
\* 1 is between two of its chunks, and the table holds rows of both.
C22_Witness ==
    /\ calls[2].state = "returned"
    /\ calls[2].failed = {}
    /\ calls[1].state = "loop"
    /\ calls[1].i > 0
    /\ calls[1].i < Len(calls[1].rows)
    /\ calls[1].failed = {}
    /\ keysOf(calls[2].rows) \subseteq storedKeys(raw_signals)
    /\ calls[1].rows[2] \in raw_signals

\* C29: a chunk the store refuses adds one entry to the errors of its call
\* and nothing else: the rows of the chunks not refused are in the table
\* under their keys, the chunks after a refused one included, and inserted
\* counts exactly the rows of the call that were stored, none of them a row
\* of a refused chunk.
C29_ChunkFailuresIsolated ==
    \A w \in Writers :
        calls[w].state \in {"loop", "returned"} =>
            LET c == calls[w]
                accepted == acceptedRows(c)
                stored == storedKeys(raw_signals)
            IN /\ Len(c.errors) = Cardinality(c.failed)
               /\ {<<r.source, r.source_id>> : r \in accepted} \subseteq stored
               /\ c.inserted = Cardinality(raw_signals \cap accepted)
               /\ c.state = "returned" => c.i >= Len(c.rows)

\* C29 witness: a call has returned whose first chunk the store refused: one
\* error, the signal of its last chunk stored and counted, no row of the
\* first chunk stored.
C29_Witness ==
    \E w \in Writers :
        /\ calls[w].state = "returned"
        /\ calls[w].failed = {0}
        /\ Len(calls[w].errors) = 1
        /\ calls[w].inserted = 1
        /\ calls[w].rows[Len(calls[w].rows)] \in raw_signals
        /\ calls[w].rows[2] \notin raw_signals

(***************************************************************************)
(* Scrape, analyze and research commands interleaved                       *)
(*                                                                         *)
(* calls.run is the analyze command in flight: Idle, or the batch it has   *)
(* fetched and handed to buildPrompt while its synthesis is running.       *)
(* ret.prompted holds the keys of the signals buildPrompt has received so  *)
(* far.                                                                    *)
(***************************************************************************)
\* The signals the scrapers find.
CommandSignals ==
    {Signal("reddit", "a", "t1", <<"AI">>), Signal("arxiv", "b", "t2", <<"ml">>)}

\* The synthesis subprocess closes cleanly with one insight.
SucceedingOutcomes == {o \in PipelineOutcomes : o.spawned}

InitCommands ==
    /\ clock = 0
    /\ raw_signals = {}
    /\ insights = {}
    /\ op = "init"
    /\ ret = [prompted |-> {}]
    /\ runs = 0
    /\ calls = [run |-> Idle]
    /\ mock = NoMock

\* The scrape command stores what one scraper found.
ScrapeSignal ==
    /\ \E s \in CommandSignals :
         raw_signals' = upsertSignals(raw_signals, <<s>>, clock, {}).table
    /\ op' = "scrape"
    /\ UNCHANGED <<clock, insights, ret, runs, mock, calls>>

\* runAnalysis up to buildPrompt (analyze.ts:278-317): since is the latest
\* analyzed_at, or 24 hours ago when there is none or the query fails; an
\* empty page ends the run.
FetchSignals ==
    /\ calls.run = Idle
    /\ \E lastFails \in BOOLEAN :
         LET lastAnalysis == getLastAnalysisTime(insights, lastFails)
             since == IF lastAnalysis = <<>> THEN clock - DayMs ELSE lastAnalysis[1]
         IN \E page \in getSignalsSince(raw_signals, since) :
              IF page = {}
              THEN UNCHANGED <<calls, ret>>
              ELSE /\ calls' = [run |-> [state |-> "fetched", signals |-> page]]
                   /\ ret' = [prompted |-> ret.prompted
                                             \cup {<<r.source, r.source_id>> : r \in page}]
    /\ op' = "runAnalysis"
    /\ UNCHANGED <<clock, raw_signals, insights, runs, mock>>

\* The rows one successful synthesis stores now; the row ids stand for the
\* uuids of the table.
storeInsightsOf(command) ==
    \E outcome \in SucceedingOutcomes :
      LET list == runClaudeAnalysis(outcome).insights
      IN insights' = insertInsights(insights, list, <<command, clock>>,
                                    [k \in 1..Len(list) |-> clock], FALSE).table

\* runAnalysis from the synthesis on (analyze.ts:319-328): the insights are
\* inserted with analyzed_at read when the rows are built.
StoreInsights ==
    /\ calls.run # Idle
    /\ storeInsightsOf("analyze")
    /\ calls' = [run |-> Idle]
    /\ op' = "runAnalysis"
    /\ UNCHANGED <<clock, raw_signals, ret, runs, mock>>

\* The research command: runResearch reads no signal and inserts its
\* insights into the same table.
ResearchCommand ==
    /\ storeInsightsOf("research")
    /\ op' = "runResearch"
    /\ UNCHANGED <<clock, raw_signals, ret, runs, mock, calls>>

NextCommands ==
    TickMs \/ ScrapeSignal \/ FetchSignals \/ StoreInsights \/ ResearchCommand

\* The analyze command is run again and again, and a run in flight finishes.
SpecCommands ==
    /\ InitCommands
    /\ [][NextCommands]_vars
    /\ WF_vars(FetchSignals)
    /\ WF_vars(StoreInsights)

(***************************************************************************)
(* Properties of the interleaved commands                                  *)
(***************************************************************************)
\* C27: every signal stored in raw_signals is eventually in the batch some
\* runAnalysis hands to buildPrompt, whatever scrape, analyze and research
\* commands run in between.
C27_NoSignalSkipped ==
    \A s \in CommandSignals :
       (\E r \in raw_signals : SameKey(r, s))
          ~> (<<s.source, s.source_id>> \in ret.prompted)

(***************************************************************************)
(* Properties of the site generator                                        *)
(***************************************************************************)
\* The markdown archive a call has produced, if any: that of
\* generateInsightMarkdown, or the fourth file publishSite wrote.
markdownOut ==
    IF ret.out = <<>> THEN <<>>
    ELSE IF mock.function = "generateInsightMarkdown" THEN ret.out
    ELSE IF mock.function = "publishSite" /\ Len(ret.out[1].written) = 4
         THEN <<ret.out[1].written[4]>>
    ELSE <<>>

\* The JSON feed items a call has produced, if any.
jsonFeedOut ==
    IF ret.out = <<>> THEN <<>>
    ELSE IF mock.function = "generateJsonFeed" THEN ret.out
    ELSE IF mock.function = "publishSite" /\ Len(ret.out[1].written) >= 2
         THEN <<ret.out[1].written[2]>>
    ELSE <<>>

\* The RSS feed a call has produced, if any.
rssFeedOut ==
    IF ret.out = <<>> THEN <<>>
    ELSE IF mock.function = "generateRssFeed" THEN ret.out
    ELSE IF mock.function = "publishSite" /\ Len(ret.out[1].written) >= 3
         THEN <<ret.out[1].written[3]>>
    ELSE <<>>

\* The position in the input list of the insight with this topic (the
\* topics of a list are distinct).
inputIndex(topic) ==
    CHOOSE k \in 1..Len(mock.insights) : mock.insights[k].topic = topic

priorityRank(p) == IF p = "p0" THEN 0 ELSE IF p = "p1" THEN 1 ELSE 2

\* C23: in the markdown archive every p0 entry comes before every p1 entry
\* and every p1 entry before every p2 entry, and the entries of one priority
\* stand in the order they had in the input list.
C23_MarkdownGroupedStable ==
    markdownOut # <<>> =>
        LET body == markdownOut[1].body
        IN \A a, b \in 1..Len(body) :
              a < b =>
                 /\ priorityRank(body[a].priority) <= priorityRank(body[b].priority)
                 /\ body[a].priority = body[b].priority
                       => inputIndex(body[a].topic) < inputIndex(body[b].topic)

\* The archive of a list whose p0 insight came after its p1 insight, and one
\* of a list with two p0 insights.
C23_Witness ==
    /\ mock.function = "generateInsightMarkdown"
    /\ markdownOut # <<>>
    /\ Len(markdownOut[1].body) = 2
    /\ \/ /\ markdownOut[1].body[1].priority = "p0"
          /\ markdownOut[1].body[2].priority = "p1"
          /\ inputIndex(markdownOut[1].body[1].topic) = 2
       \/ /\ markdownOut[1].body[1].priority = "p0"
          /\ markdownOut[1].body[2].priority = "p0"

\* The number of sources of the list that the trust lookup puts in tier t.
sourcesInTier(sources, t) ==
    Cardinality({j \in 1..Len(sources) : tierOf(sources[j]) = t})

\* C24: every item of the JSON feed carries the priority, insight type and
\* confidence of its insight; it carries a convergence block exactly when the
\* insight has at least one source; the block's source_count is the number
\* of sources and its trust_tiers gives, for each tier that occurs, the
\* number of sources resolving to it, and no other tier.
C24_JsonFeedItems ==
    jsonFeedOut # <<>> =>
        /\ Len(jsonFeedOut[1]) = Len(mock.insights)
        /\ \A k \in 1..Len(mock.insights) :
              LET insight == mock.insights[k]
                  d == jsonFeedOut[1][k].deeptrend
              IN /\ d.priority = priorityOrP2(insight)
                 /\ d.insight_type = insight.insight_type
                 /\ d.confidence = insight.confidence
                 /\ (d.convergence # <<>>) <=> (Len(insight.sources) > 0)
                 /\ d.convergence # <<>> =>
                       /\ d.convergence[1].source_count = Len(insight.sources)
                       /\ \A t \in DOMAIN d.convergence[1].trust_tiers :
                             /\ d.convergence[1].trust_tiers[t] > 0
                             /\ d.convergence[1].trust_tiers[t]
                                   = sourcesInTier(insight.sources, t)
                       /\ \A j \in 1..Len(insight.sources) :
                             tierOf(insight.sources[j])
                                \in DOMAIN d.convergence[1].trust_tiers

\* A feed with an item without a convergence block and an item whose block
\* counts three sources in three tiers.
C24_Witness ==
    /\ mock.function = "generateJsonFeed"
    /\ jsonFeedOut # <<>>
    /\ \E j, k \in 1..Len(jsonFeedOut[1]) :
          /\ jsonFeedOut[1][j].deeptrend.convergence = <<>>
          /\ jsonFeedOut[1][k].deeptrend.convergence # <<>>
          /\ jsonFeedOut[1][k].deeptrend.convergence[1].source_count = 3
          /\ jsonFeedOut[1][k].deeptrend.convergence[1].trust_tiers
                = [t \in {"editor", "crowd", "raw"} |-> 1]

\* The generator behind each file of SiteFiles.
GeneratorOrder ==
    <<"generateLlmsTxt", "generateJsonFeed", "generateRssFeed", "generateInsightMarkdown">>

\* The number of items of an artifact.
itemCount(name, out) ==
    IF name = "generateLlmsTxt" THEN out.insights
    ELSE IF name = "generateJsonFeed" THEN Len(out)
    ELSE IF name = "generateRssFeed" THEN Len(out.items)
    ELSE Len(out.body)

C30_MarkdownAccountsForAll ==
    (mock.function = "publishSite" /\ markdownOut # <<>>) =>
        LET md == markdownOut[1]
        IN /\ md.p0_count + md.p1_count + md.p2_count = md.insights_count
           /\ md.insights_count = Len(mock.insights)
           /\ \A k \in 1..Len(mock.insights) :
                 /\ Cardinality({a \in 1..Len(md.body) :
                                    md.body[a].topic = mock.insights[k].topic}) = 1
                 /\ \A a \in 1..Len(md.body) :
                       md.body[a].topic = mock.insights[k].topic =>
                          /\ md.body[a].priority
                                = jsonFeedOut[1][k].deeptrend.priority
                          /\ md.body[a].priority = rssFeedOut[1].items[k].title[1]

====
